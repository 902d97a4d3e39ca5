---------------------------- MODULE DialContract ----------------------------
(***************************************************************************)
(* What dialing promises the person behind a contact, without workers,     *)
(* queues, answers or faults: attempts are opened in order and within the  *)
(* policy, the provider is asked once for an opened attempt, a phone rings *)
(* only for an attempt the provider was asked for, and never while another *)
(* call to the same person is live.                                        *)
(***************************************************************************)
EXTENDS Integers

CONSTANTS Numbers, Calls, Limit   \* attempt numbers, calls of one attempt, policy

VARIABLES opened, asked, line     \* attempts with a row, requests sent, live calls

contractVars == <<opened, asked, line>>

ContractInit == opened = {} /\ asked = [n \in Numbers |-> 0] /\ line = {}

Open(n) ==
  /\ n \notin opened /\ n <= Limit
  /\ \A m \in Numbers : m < n => m \in opened
  /\ opened' = opened \cup {n}
  /\ UNCHANGED <<asked, line>>

Ask(n) ==
  /\ n \in opened /\ asked[n] = 0
  /\ asked' = [asked EXCEPT ![n] = 1]
  /\ UNCHANGED <<opened, line>>

Ring(n, k) ==
  /\ asked[n] > 0 /\ line = {}
  /\ line' = {<<n, k>>}
  /\ UNCHANGED <<opened, asked>>

HangUp ==
  /\ line # {}
  /\ line' = {}
  /\ UNCHANGED <<opened, asked>>

ContractNext ==
  \/ \E n \in Numbers : Open(n) \/ Ask(n) \/ \E k \in Calls : Ring(n, k)
  \/ HangUp

ContractSpec == ContractInit /\ [][ContractNext]_contractVars
=============================================================================
