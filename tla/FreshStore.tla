------------------------------ MODULE FreshStore ------------------------------
(***************************************************************************)
(* What a cached repository promises its callers, without a cache: a table *)
(* whose rows are rewritten, and calls that read one key.  At any moment a *)
(* read may see the writes of its key from the last published one to the   *)
(* last committed one; a call answers with a write that was visible at     *)
(* some moment between its start and its answer.  Seen from its caller, a  *)
(* cached call is therefore one atomic read of the visible writes, which   *)
(* is how Membership, SignIn and Rbac model theirs.                        *)
(***************************************************************************)
EXTENDS Naturals

CONSTANTS Keys, Readers

VARIABLES current,    \* [Keys -> the number of the last committed write]
          published,  \* [Keys -> the newest write every new read reflects]
          reading     \* [Readers -> the call in progress]

vars == <<current, published, reading>>

(* may: the writes that were visible at some moment of the call so far.    *)
Call == [phase : {"idle", "asked", "answered"}, key : Keys, may : SUBSET Nat,
         answer : Nat]

(* The key of a call that is not in progress means nothing.                *)
AnyKey == CHOOSE k \in Keys : TRUE
Idle == [phase |-> "idle", key |-> AnyKey, may |-> {}, answer |-> 0]

Visible(k) == published[k]..current[k]

Init ==
  /\ current \in [Keys -> Nat]
  /\ published = current
  /\ reading = [p \in Readers |-> Idle]

(* Some keys are written once more, or some writes are published.          *)
Commit ==
  /\ current' \in [Keys -> Nat]
  /\ \A k \in Keys : current'[k] \in current[k]..(current[k] + 1)
  /\ published' \in [Keys -> Nat]
  /\ \A k \in Keys : published'[k] \in published[k]..current'[k]
  /\ reading' = [p \in Readers |->
       LET c == reading[p]
       IN  IF c.phase = "asked"
             THEN [c EXCEPT !.may = @ \cup published'[c.key]..current'[c.key]]
             ELSE c]

Ask(p, k) ==
  /\ reading[p].phase = "idle"
  /\ reading' = [reading EXCEPT ![p] =
                   [phase |-> "asked", key |-> k, may |-> Visible(k),
                    answer |-> 0]]
  /\ UNCHANGED <<current, published>>

Answer(p) ==
  /\ reading[p].phase = "asked"
  /\ \E n \in reading[p].may :
       reading' = [reading EXCEPT ![p] =
                     [phase |-> "answered", key |-> @.key, may |-> {},
                      answer |-> n]]
  /\ UNCHANGED <<current, published>>

End(p) ==
  /\ reading[p].phase # "idle"
  /\ reading' = [reading EXCEPT ![p] = Idle]
  /\ UNCHANGED <<current, published>>

Next == \/ Commit
        \/ \E p \in Readers : Answer(p) \/ End(p) \/ \E k \in Keys : Ask(p, k)

Spec == Init /\ [][Next]_vars
=============================================================================
