---------------------------- MODULE RestockBands ----------------------------
(***************************************************************************)
(* How urgently an item is to be restocked, from what was counted of it    *)
(* and the par levels the owner set (apps/api/src/inventory/               *)
(* restock.service.ts).  A column that may be null is a set of at most one *)
(* value; statuses and levels are their ranks, URGENT = 0 .. ENOUGH = 3    *)
(* and EMPTY = 0 .. FULL = 7.                                              *)
(***************************************************************************)
EXTENDS Integers

URGENT == 0
LOW == 1
BELOW_PAR == 2
ENOUGH == 3

Level == 0 .. 7
Nullable(S) == {{}} \cup {{x} : x \in S}
Bands == [par : Nullable(Nat), low : Nullable(Nat), urgent : Nullable(Nat)]

(* Mutant: par is looked at first.                                         *)
QuantityStatusParFirst(counted, b) ==
  IF \E p \in b.par : counted < p THEN BELOW_PAR
  ELSE IF \E u \in b.urgent : counted <= u THEN URGENT
  ELSE IF \E l \in b.low : counted <= l THEN LOW
  ELSE ENOUGH

(* quantityRestockStatus: thresholds are inclusive, par is not.            *)
QuantityStatus(counted, b) ==
  IF \E u \in b.urgent : counted <= u THEN URGENT
  ELSE IF \E l \in b.low : counted <= l THEN LOW
  ELSE IF \E p \in b.par : counted < p THEN BELOW_PAR
  ELSE ENOUGH

(* EMPTY and LOW are urgent, a third is low, up to two thirds is below par.*)
LevelBand(level) == level \div 2

(* levelRestockStatus                                                      *)
LevelStatus(level, par) ==
  IF par = {} THEN LevelBand(level)
  ELSE IF \A p \in par : level >= p THEN ENOUGH
  ELSE IF LevelBand(level) = ENOUGH THEN BELOW_PAR
  ELSE LevelBand(level)
=============================================================================
