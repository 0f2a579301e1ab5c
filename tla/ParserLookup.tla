---------------------------- MODULE ParserLookup ----------------------------
(***************************************************************************)
(* How the parser template lempar.c reads the tables T that ReportTable    *)
(* wrote: yy_find_shift_action, yy_find_reduce_action and what they assert.*)
(***************************************************************************)
EXTENDS Integers, FiniteSets

MaxShift(T) == T.nstate - 1         \* YY_MAX_SHIFT

Hit(T, state, la) == T.lookahead[T.shiftOfst[state] + la] = la

HasFallback(T, la) == la \in DOMAIN T.fallback /\ T.fallback[la] # 0

(* The action for a token: its own, or that of its fallback token, or that *)
(* of the wildcard, or the default.                                        *)
FindShiftAction(T, la, state) ==
    IF state > MaxShift(T) THEN state
    ELSE LET t == IF ~Hit(T, state, la) /\ HasFallback(T, la) THEN T.fallback[la] ELSE la
             i == T.shiftOfst[state]
         IN  IF Hit(T, state, t) THEN T.action[i + t]
             ELSE IF T.wildcard >= 0 /\ t > 0 /\ Hit(T, state, T.wildcard)
                  THEN T.action[i + T.wildcard]
             ELSE T.default[state]

FindReduceAction(T, state, lhs) == T.action[T.reduceOfst[state] + lhs]

(* The assertions of yy_find_shift_action. *)
ShiftAsserts(T, la, state) ==
    state <= MaxShift(T) =>
        /\ state \in DOMAIN T.shiftOfst
        /\ T.shiftOfst[state] \in 0..Cardinality(DOMAIN T.action)
        /\ T.shiftOfst[state] + T.ntoken <= Cardinality(DOMAIN T.lookahead)
        /\ la \in 0..T.ntoken - 1
        /\ HasFallback(T, la) => ~HasFallback(T, T.fallback[la])
        /\ \A t \in {la, T.wildcard} :
              t >= 0 /\ Hit(T, state, t) => T.shiftOfst[state] + t \in DOMAIN T.action

(* The assertions of yy_find_reduce_action. *)
ReduceAsserts(T, state, lhs) ==
    /\ state \in DOMAIN T.reduceOfst
    /\ T.reduceOfst[state] + lhs \in DOMAIN T.action
    /\ T.lookahead[T.reduceOfst[state] + lhs] = lhs
=============================================================================
