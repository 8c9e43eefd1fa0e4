---------------------------- MODULE TenantQuota ----------------------------
(***************************************************************************)
(* The daily token budget of one tenant (auth/quota.py): a counter in      *)
(* Redis that every consumption adds to first, and takes its amount back   *)
(* from when the sum is over the budget.  The commands of concurrent       *)
(* consumptions interleave; any of them may fail, with or without effect.  *)
(***************************************************************************)
EXTENDS Integers, FiniteSets

CONSTANTS
    Consumers,   \* calls of consume_tokens that may be under way together
    Amounts,     \* what they ask for
    Budget,
    MaxAsked     \* bound: the sum of all that is asked for

ASSUME ConsumersAssumption == IsFiniteSet(Consumers)
ASSUME AmountAssumption == Amounts \subseteq Nat \ {0}
ASSUME BudgetAssumption == Budget \in Nat \ {0}

VARIABLES
    used,        \* the counter of the day
    expires,     \* does its key have a time to live?
    consumer,    \* the calls under way
    asked,       \* what was asked for so far
    grants,     \* history: what was granted
    leaked,      \* history: what was counted and neither granted nor taken back
    upset        \* history: was a consumption refused, or did a command fail?

quotaVars == <<used, expires, consumer, asked, grants, leaked, upset>>

NoConsumption == [pc |-> "idle", amount |-> 0, sum |-> 0]

QuotaInit ==
    /\ used = 0
    /\ expires = FALSE
    /\ consumer = [c \in Consumers |-> NoConsumption]
    /\ asked = 0 /\ grants = 0 /\ leaked = 0
    /\ upset = FALSE

ConsumerAt(c, pc) == consumer[c].pc = pc

Ends(c) == consumer' = [consumer EXCEPT ![c] = NoConsumption]

(* INCRBY *)
Consume(c, n) ==
    /\ ConsumerAt(c, "idle")
    /\ asked + n <= MaxAsked
    /\ asked' = asked + n
    /\ used' = used + n
    /\ consumer' = [consumer EXCEPT ![c] = [pc |-> "judge", amount |-> n, sum |-> used']]
    /\ UNCHANGED <<expires, grants, leaked, upset>>

(* The answer of INCRBY is lost: AuthConfigError, with the amount counted. *)
ConsumeLost(c, n) ==
    /\ ConsumerAt(c, "idle")
    /\ asked + n <= MaxAsked
    /\ asked' = asked + n
    /\ used' = used + n
    /\ leaked' = leaked + n
    /\ upset' = TRUE
    /\ UNCHANGED <<expires, consumer, grants>>

OverBudget(c) == consumer[c].sum > Budget

(* Over the budget: DECRBY, whose failure is only logged. *)
TakeBack(c) ==
    /\ ConsumerAt(c, "judge")
    /\ OverBudget(c)
    /\ \/ /\ used' = used - consumer[c].amount
          /\ UNCHANGED leaked
       \/ /\ leaked' = leaked + consumer[c].amount
          /\ UNCHANGED used
    /\ Ends(c)
    /\ upset' = TRUE
    /\ UNCHANGED <<expires, asked, grants>>

(* The first to write the key gives it its time to live. *)
IsFirst(c) == consumer[c].sum = consumer[c].amount

Grant(c) ==
    /\ ConsumerAt(c, "judge")
    /\ ~OverBudget(c)
    /\ grants' = grants + consumer[c].amount
    /\ \/ /\ IsFirst(c)
          /\ \/ expires' = TRUE /\ UNCHANGED upset
             \/ upset' = TRUE /\ UNCHANGED expires
       \/ ~IsFirst(c) /\ UNCHANGED <<expires, upset>>
    /\ Ends(c)
    /\ UNCHANGED <<used, asked, leaked>>

QuotaNext ==
    \E c \in Consumers :
        \/ \E n \in Amounts : Consume(c, n) \/ ConsumeLost(c, n)
        \/ TakeBack(c)
        \/ Grant(c)

QuotaSpec == QuotaInit /\ [][QuotaNext]_quotaVars

-----------------------------------------------------------------------------
(* Properties. *)

(* The sum of the numbers of f: how many units they are, each with who holds it. *)
Units(f) == UNION {{x} \X (1 .. f[x]) : x \in DOMAIN f}

SumOf(f) == Cardinality(Units(f))

BeingJudged == SumOf([c \in Consumers |-> consumer[c].amount])

(* All that was granted fits the budget, however consumptions, refusals and their *)
(* compensations interleave and whatever fails.                                   *)
WithinBudget == grants <= Budget

(* The counter is what was granted, what is still being judged and what leaked: no *)
(* compensation gives back more than its own amount.                               *)
CounterAddsUp == used = grants + BeingJudged + leaked

(* While no consumption was refused and no command failed, the key of a day that *)
(* nobody is working on has its time to live.                                    *)
KeyGoesAway ==
    grants > 0 /\ ~upset /\ (\A c \in Consumers : ConsumerAt(c, "idle")) => expires

(* What the quota keeps: grants within the budget, a counter that adds up, a    *)
(* key that goes away.                                                          *)
QuotaInv ==
    /\ WithinBudget
    /\ CounterAddsUp
    /\ KeyGoesAway
=============================================================================
