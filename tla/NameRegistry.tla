---------------------------- MODULE NameRegistry ----------------------------
(***************************************************************************)
(* What the IdP promises about the local parts of `<local>@<domain>`: one  *)
(* table that gives every name at most one holder, either a human account  *)
(* or an agent.  A human account holds at most one name and gives it up    *)
(* when it takes another or is removed; an agent name is held for good.    *)
(* The two tables, the handlers that read and write them in separate       *)
(* steps, and the sessions that authorise those handlers are the business  *)
(* of IdpAccounts, which implements this specification.                    *)
(***************************************************************************)
EXTENDS Naturals

CONSTANTS
  Names,    \* the local parts that pass normalize_name
  Ids       \* account ids

VARIABLE holder   \* holder[n]: who holds the name n

Free == [kind |-> "free", id |-> 0]
Human(i) == [kind |-> "human", id |-> i]
Agent(i) == [kind |-> "agent", id |-> i]

Init == holder = [n \in Names |-> Free]

\* Account i takes the free name n and drops the name it held before.
Claim(i, n) ==
  /\ holder[n] = Free
  /\ holder' = [m \in Names |->
                  IF m = n THEN Human(i)
                  ELSE IF holder[m] = Human(i) THEN Free ELSE holder[m]]

\* The account i is removed; its name may be claimed by anybody afterwards.
Remove(i) ==
  holder' = [m \in Names |-> IF holder[m] = Human(i) THEN Free ELSE holder[m]]

\* The free name n is given to an agent of account i, for good.
Enrol(i, n) ==
  /\ holder[n] = Free
  /\ holder' = [holder EXCEPT ![n] = Agent(i)]

Next == \E i \in Ids :
          \/ Remove(i)
          \/ \E n \in Names : Claim(i, n) \/ Enrol(i, n)

Spec == Init /\ [][Next]_holder
=============================================================================
