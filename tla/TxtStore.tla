------------------------------ MODULE TxtStore ------------------------------
(***************************************************************************)
(* What the ephemeral TXT store promises to the DNS handlers: a set of     *)
(* live records, each visible until its expiry, a delete or a reload.      *)
(* There is no sweep here: storage that was not reclaimed cannot be seen.  *)
(* "op" names the last request or reload, so that no change of the records *)
(* passes for one that was not asked for.                                  *)
(***************************************************************************)
EXTENDS Naturals

CONSTANTS Names, Values,
          MaxTTL      \* the longest lifetime a client may ask for

VARIABLES clock, live, op

Record == [name : Names, value : Values, expireAt : Nat]

Init == clock = 0 /\ live = {} /\ op = <<"none">>

Tick ==
  /\ clock' = clock + 1
  /\ live' = {r \in live : r.expireAt > clock'}
  /\ UNCHANGED op

(* The value is added, or its expiry replaced.                             *)
Put(n, v, e) ==
  /\ e <= clock + MaxTTL
  /\ live' = {r \in live : r.name # n \/ r.value # v}
               \cup {r \in {[name |-> n, value |-> v, expireAt |-> e]} :
                       e > clock}
  /\ op' = <<"put", n, v>>
  /\ UNCHANGED clock

Delete(n) ==
  /\ live' = {r \in live : r.name # n}
  /\ op' = <<"delete", n>>
  /\ UNCHANGED clock

DeleteValue(n, v) ==
  /\ live' = {r \in live : r.name # n \/ r.value # v}
  /\ op' = <<"deleteValue", n, v>>
  /\ UNCHANGED clock

Clear == live' = {} /\ op' = <<"clear">> /\ UNCHANGED clock

Next ==
  \/ Tick \/ Clear
  \/ \E n \in Names : Delete(n)
  \/ \E n \in Names, v \in Values :
       DeleteValue(n, v) \/ \E e \in 0..(clock + MaxTTL) : Put(n, v, e)

Spec == Init /\ [][Next]_<<clock, live, op>>
=============================================================================
