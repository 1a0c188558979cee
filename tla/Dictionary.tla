----------------------------- MODULE Dictionary -----------------------------
(***************************************************************************)
(* What libyarn/src/map.h promises of yarn_map_probe: it "looks for the    *)
(* given address and returns the value if present, otherwise it adds the   *)
(* provided value", atomically.  Every thread provides a value of its own. *)
(***************************************************************************)

CONSTANTS
  Thread,
  Key,     \* the addresses looked for
  Null     \* no key, no value

VARIABLES
  dict,    \* the map: a function of the keys it holds
  asked,   \* the key a thread is looking for
  answer   \* the value its last call returned

vars == <<dict, asked, answer>>

Init ==
  /\ dict = << >>
  /\ asked = [t \in Thread |-> Null]
  /\ answer = [t \in Thread |-> Null]

Call(t, k) ==
  /\ asked[t] = Null
  /\ asked' = [asked EXCEPT ![t] = k]
  /\ answer' = [answer EXCEPT ![t] = Null]
  /\ UNCHANGED dict

Insert(t) ==
  /\ asked[t] \notin DOMAIN dict \cup {Null}
  /\ dict' = [k \in DOMAIN dict \cup {asked[t]} |-> IF k = asked[t] THEN t ELSE dict[k]]
  /\ UNCHANGED <<asked, answer>>

Return(t) ==
  /\ asked[t] \in DOMAIN dict
  /\ answer' = [answer EXCEPT ![t] = dict[asked[t]]]
  /\ asked' = [asked EXCEPT ![t] = Null]
  /\ UNCHANGED dict

Next ==
  \E t \in Thread :
    \/ \E k \in Key : Call(t, k)
    \/ Insert(t)
    \/ Return(t)

Spec == Init /\ [][Next]_vars
=============================================================================
