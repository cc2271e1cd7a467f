------------------------------ MODULE RpcPool ------------------------------
(***************************************************************************)
(* How the calls of a page reach Solana: RPC_POOL, rotateRpcPool and       *)
(* callWithFailover of client/app.js.  All calls of a page share one       *)
(* pointer into the pool, and move it under one another.                   *)
(***************************************************************************)
EXTENDS Naturals

CONSTANTS
    Calls,          \* calls a page may have under way together
    POOL            \* number of endpoints in the pool

ASSUME PoolAssumption == POOL \in Nat \ {0}

Pool == 0 .. POOL - 1

VARIABLES
    connectionIndex,    \* state.connectionIndex, shared by all calls
    endpoint,           \* whether each one answers, fails, or forbids the page to ask
    call                \* per call: where it started, and what it goes on with

pool_vars == <<connectionIndex, endpoint, call>>

Manners == {"answers", "fails", "forbids"}

NoCall == [ stage |-> "Idle", start |-> 0, attempt |-> 0, on |-> 0 ]

PoolInit ==
    /\ connectionIndex = 0
    /\ endpoint = [n \in Pool |-> "answers"]
    /\ call = [c \in Calls |-> NoCall]

\* Endpoints come and go; one at least answers.
NodeChanges(n) ==
    /\ \E manner \in Manners \ {endpoint[n]} : endpoint' = [endpoint EXCEPT ![n] = manner]
    /\ \E m \in Pool : endpoint'[m] = "answers"
    /\ UNCHANGED <<connectionIndex, call>>

under_way(c) == call[c].stage = "Trying"

BeginCall(c) ==
    /\ ~under_way(c)
    /\ call' = [call EXCEPT ![c] = [ stage |-> "Trying", start |-> connectionIndex,
                                    attempt |-> 1, on |-> connectionIndex ]]
    /\ UNCHANGED <<connectionIndex, endpoint>>

\* A result, or a verdict of the program: neither is tried elsewhere.
Answered(c) ==
    /\ under_way(c) /\ endpoint[call[c].on] = "answers"
    /\ call' = [call EXCEPT ![c] = [NoCall EXCEPT !.stage = "Answered"]]
    /\ UNCHANGED <<connectionIndex, endpoint>>

\* SLIP: the second endpoint is the last one tried.
rotateRpcPool_stuck == 1

rotateRpcPool == (connectionIndex + 1) % POOL

\* A transient error moves the pointer; back where the call started it gives up.
TransientError(c) ==
    LET next == rotateRpcPool IN
    /\ under_way(c) /\ endpoint[call[c].on] = "fails"
    /\ connectionIndex' = next
    /\ call' = [call EXCEPT ![c] =
          IF next = call[c].start \/ call[c].attempt = POOL
          THEN [NoCall EXCEPT !.stage = "Failed"]
          ELSE [call[c] EXCEPT !.on = next, !.attempt = @ + 1]]
    /\ UNCHANGED endpoint

\* A 403, or a 429 whose status the error does not carry, is taken for a verdict:
\* it is thrown at once, and the pointer stays where it is.
ErrorThrown(c) ==
    /\ under_way(c) /\ endpoint[call[c].on] = "forbids"
    /\ call' = [call EXCEPT ![c] = [NoCall EXCEPT !.stage = "Thrown"]]
    /\ UNCHANGED <<connectionIndex, endpoint>>

CallEnds(c) == Answered(c) \/ TransientError(c) \/ ErrorThrown(c)

PoolNext ==
    \/ \E n \in Pool : NodeChanges(n)
    \/ \E c \in Calls : BeginCall(c) \/ CallEnds(c)

\* A call that is under way comes to an end; that one is begun is up to the page.
PoolFairness == \A c \in Calls : WF_pool_vars(CallEnds(c))
PoolSpec == PoolInit /\ [][PoolNext]_pool_vars /\ PoolFairness

-----------------------------------------------------------------------------
(* callWithFailover, "Try each pool member in order until one succeeds, or *)
(* all fail": calls that move the shared pointer under one another may     *)
(* give up early, but a page that goes on asking finds an endpoint that    *)
(* stays up - unless the pointer comes to stand, again and again, at one   *)
(* that forbids the page to ask, which the code does not turn away from.   *)
LiveNodeFound ==
    \A n \in Pool :
        <>[](endpoint[n] = "answers") /\ []<>(\E c \in Calls : under_way(c))
            => \/ []<>(\E c \in Calls : call[c].stage = "Answered")
               \/ []<>(endpoint[connectionIndex] = "forbids")
=============================================================================
