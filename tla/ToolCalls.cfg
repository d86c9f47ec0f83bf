SPECIFICATION MCSpec
CONSTANTS
    mug = mug
    wrap = wrap
    here = here
    there = there
    Agents = {a1}
    Skus = {mug, wrap}
    Places = {here, there}
    Keys = {k1}
    Workers = {w1, w2}
    GoodCodes = {spring}
    BadCodes = {typo}
    Stock <- Shelf
    MaxCarts = 3
    None = None
    MaxCalm = 4
    MaxRacing = 3
SYMMETRY Symmetry
INVARIANTS
    TypeOK
    BasketStandsUp
    OneAnswerPerKey
PROPERTIES
    WhatWasDoneStands
CHECK_DEADLOCK FALSE
