------------------------- MODULE ToolRunner_proofs -------------------------
(***************************************************************************)
(* Proofs about ToolRunner, for any set of ids, any number of threads and  *)
(* any number of calls; and about Bridge, where start-up decides which     *)
(* pool a call goes to.                                                    *)
(***************************************************************************)
EXTENDS Bridge, FiniteSetTheorems, TLAPS

Distinct(s) == \A k, l \in DOMAIN s : s[k] = s[l] => k = l

Increasing(s) == \A k, l \in DOMAIN s : k < l => s[k] < s[l]

-----------------------------------------------------------------------------
(* Sequences. *)

\* Append adds one element to those of a sequence.
LEMMA InSeqAppend ==
    ASSUME NEW S, NEW s \in Seq(S), NEW e \in S
    PROVE  InSeq(Append(s, e)) = InSeq(s) \cup {e}
<1>1. DOMAIN Append(s, e) = 1..(Len(s) + 1)
    OBVIOUS
<1>2. \A k \in 1..Len(s) : Append(s, e)[k] = s[k]
    OBVIOUS
<1>3. Append(s, e)[Len(s) + 1] = e
    OBVIOUS
<1>4. 1..(Len(s) + 1) = DOMAIN s \cup {Len(s) + 1}
    OBVIOUS
<1> QED
    BY <1>1, <1>2, <1>3, <1>4 DEF InSeq

\* A sequence over a set is one over any larger set.
LEMMA SeqMonotonic ==
    ASSUME NEW S, NEW T, S \subseteq T, NEW s \in Seq(S)
    PROVE  s \in Seq(T)
OBVIOUS

\* The elements of a sequence over a set are in the set.
LEMMA SeqElement ==
    ASSUME NEW S, NEW s \in Seq(S), NEW k \in DOMAIN s
    PROVE  s[k] \in S
OBVIOUS

\* The elements of a sequence without repetition, once its head is removed.
LEMMA InSeqTail ==
    ASSUME NEW S, NEW s \in Seq(S), s # <<>>, Distinct(s)
    PROVE  /\ Head(s) \in InSeq(s)
           /\ InSeq(Tail(s)) = InSeq(s) \ {Head(s)}
<1>1. Len(s) \in Nat \ {0} /\ DOMAIN s = 1..Len(s) /\ Head(s) = s[1]
    OBVIOUS
<1>2. DOMAIN Tail(s) = 1..(Len(s) - 1) /\ \A k \in 1..(Len(s) - 1) : Tail(s)[k] = s[k + 1]
    OBVIOUS
<1>3. ASSUME NEW k \in DOMAIN s, s[k] # s[1]
      PROVE  s[k] \in InSeq(Tail(s))
    <2>1. k - 1 \in 1..(Len(s) - 1)
        BY <1>1, <1>3
    <2>2. Tail(s)[k - 1] = s[k]
        BY <1>1, <1>2, <2>1
    <2> QED
        BY <1>2, <2>1, <2>2 DEF InSeq
<1>4. ASSUME NEW k \in DOMAIN Tail(s)
      PROVE  Tail(s)[k] \in InSeq(s) /\ Tail(s)[k] # s[1]
    <2>1. k + 1 \in DOMAIN s /\ k + 1 # 1 /\ 1 \in DOMAIN s
        BY <1>1, <1>2
    <2>2. Tail(s)[k] = s[k + 1]
        BY <1>2
    <2> QED
        BY <2>1, <2>2 DEF InSeq, Distinct
<1>5. Head(s) \in InSeq(s)
    BY <1>1 DEF InSeq
<1>6. InSeq(Tail(s)) \subseteq InSeq(s) \ {Head(s)}
    BY <1>1, <1>4 DEF InSeq
<1>7. InSeq(s) \ {Head(s)} \subseteq InSeq(Tail(s))
    BY <1>1, <1>3 DEF InSeq
<1> QED
    BY <1>5, <1>6, <1>7

\* A sequence stays without repetition.
LEMMA DistinctAppend ==
    ASSUME NEW S, NEW s \in Seq(S), NEW e \in S, Distinct(s), e \notin InSeq(s)
    PROVE  Distinct(Append(s, e))
<1>1. DOMAIN Append(s, e) = 1..(Len(s) + 1) /\ DOMAIN s = 1..Len(s)
    OBVIOUS
<1>2. \A k \in 1..Len(s) : Append(s, e)[k] = s[k] /\ s[k] # e
    BY <1>1 DEF InSeq
<1>3. Append(s, e)[Len(s) + 1] = e
    OBVIOUS
<1> QED
    BY <1>1, <1>2, <1>3 DEF Distinct

\* The tail of a sequence without repetition has none either.
LEMMA DistinctTail ==
    ASSUME NEW S, NEW s \in Seq(S), s # <<>>, Distinct(s)
    PROVE  Distinct(Tail(s))
<1>1. DOMAIN Tail(s) = 1..(Len(s) - 1) /\ DOMAIN s = 1..Len(s) /\ Len(s) \in Nat
    OBVIOUS
<1>2. \A k \in 1..(Len(s) - 1) : Tail(s)[k] = s[k + 1]
    OBVIOUS
<1> QED
    BY <1>1, <1>2 DEF Distinct

\* An increasing sequence stays one, and its head is its least element.
LEMMA IncreasingAppend ==
    ASSUME NEW s \in Seq(Nat), NEW e \in Nat, Increasing(s),
           \A d \in InSeq(s) : d < e
    PROVE  Increasing(Append(s, e))
<1>1. DOMAIN Append(s, e) = 1..(Len(s) + 1) /\ DOMAIN s = 1..Len(s)
    OBVIOUS
<1>2. \A k \in 1..Len(s) : Append(s, e)[k] = s[k] /\ s[k] < e
    BY <1>1 DEF InSeq
<1>3. Append(s, e)[Len(s) + 1] = e
    OBVIOUS
<1> QED
    BY <1>1, <1>2, <1>3 DEF Increasing

\* So does its tail, whose elements are all greater than the head.
LEMMA IncreasingTail ==
    ASSUME NEW s \in Seq(Nat), s # <<>>, Increasing(s)
    PROVE  /\ Increasing(Tail(s))
           /\ Distinct(s)
           /\ \A d \in InSeq(s) : d = Head(s) \/ Head(s) < d
<1>1. DOMAIN Tail(s) = 1..(Len(s) - 1) /\ DOMAIN s = 1..Len(s) /\ Len(s) \in Nat \ {0}
    OBVIOUS
<1>2. \A k \in 1..(Len(s) - 1) : Tail(s)[k] = s[k + 1]
    OBVIOUS
<1>3. \A k \in DOMAIN s : s[k] \in Nat
    OBVIOUS
<1>4. Increasing(Tail(s))
    BY <1>1, <1>2 DEF Increasing
<1>5. Distinct(s)
    BY <1>1, <1>3 DEF Increasing, Distinct
<1>6. ASSUME NEW k \in DOMAIN s PROVE s[k] = s[1] \/ s[1] < s[k]
    <2>1. k = 1 \/ 1 < k
        BY <1>1
    <2> QED
        BY <1>1, <2>1 DEF Increasing
<1> QED
    BY <1>4, <1>5, <1>6 DEF InSeq

-----------------------------------------------------------------------------
(* Types. *)

\* Submit extends the set of calls by their next rank.
LEMMA SubmitCalls ==
    ASSUME NEW i \in Ids, NEW p \in Pools, RunnerTypeOK, Submit(i, p)
    PROVE  /\ Len(calls) \in Nat
           /\ Submitted = 1..Len(calls)
           /\ Submitted' = Submitted \cup {Len(calls) + 1}
           /\ Len(calls) + 1 \notin Submitted
           /\ calls'[Len(calls) + 1] = [id |-> i, pool |-> p]
           /\ \A c \in Submitted : calls'[c] = calls[c]
           /\ calls' \in Seq([id : Ids, pool : Pools])
<1>1. calls \in Seq([id : Ids, pool : Pools]) /\ [id |-> i, pool |-> p] \in [id : Ids, pool : Pools]
    BY DEF RunnerTypeOK
<1>2. calls' = Append(calls, [id |-> i, pool |-> p])
    BY DEF Submit
<1> QED
    BY <1>1, <1>2 DEF Submitted

\* The runner starts well typed.
LEMMA RunnerTypeInit == RunnerInit => RunnerTypeOK
BY DEF RunnerInit, RunnerTypeOK, Submitted, None, Pools

\* Every step of the runner keeps the types.
LEMMA RunnerTypeStep == RunnerTypeOK /\ [RunnerNext]_runnerVars => RunnerTypeOK'
<1> SUFFICES ASSUME RunnerTypeOK, [RunnerNext]_runnerVars PROVE RunnerTypeOK'
    OBVIOUS
<1>1. ASSUME NEW i \in Ids, NEW p \in Pools, Submit(i, p)
      PROVE  RunnerTypeOK'
    <2> DEFINE c == Len(calls) + 1
    <2>1. /\ Submitted \subseteq Submitted' /\ c \in Submitted'
          /\ calls' \in Seq([id : Ids, pool : Pools])
        BY <1>1, SubmitCalls
    <2>2. inFlight' \in [Ids -> {None} \cup Submitted']
        BY <1>1, <2>1 DEF Submit, RunnerTypeOK
    <2>3. queue' \in [Pools -> Seq(Submitted')]
        <3>1. \A q \in Pools : queue[q] \in Seq(Submitted')
            BY <2>1 DEF RunnerTypeOK
        <3>2. Append(queue[p], c) \in Seq(Submitted')
            BY <2>1, <3>1
        <3> QED
            BY <1>1, <3>1, <3>2 DEF Submit, RunnerTypeOK
    <2>4. posted' \in Seq(Submitted')
        BY <1>1, <2>1 DEF Submit, RunnerTypeOK
    <2>5. /\ cancelled' \subseteq Submitted' /\ running' \subseteq Submitted'
          /\ delivered' \subseteq Submitted'
        BY <1>1, <2>1 DEF Submit, RunnerTypeOK
    <2> QED
        BY <2>1, <2>2, <2>3, <2>4, <2>5 DEF RunnerTypeOK
<1>2. ASSUME NEW i \in Ids, Cancel(i)
      PROVE  RunnerTypeOK'
    BY <1>2 DEF Cancel, RunnerTypeOK, Submitted
<1>3. CASE Finish
    <2>1. Head(posted) \in Submitted /\ posted' \in Seq(Submitted)
        BY <1>3 DEF Finish, RunnerTypeOK
    <2>2. inFlight' \in [Ids -> {None} \cup Submitted]
        BY <1>3 DEF Finish, RunnerTypeOK
    <2>3. delivered' \subseteq Submitted
        BY <1>3, <2>1 DEF Finish, RunnerTypeOK
    <2> QED
        BY <1>3, <2>1, <2>2, <2>3 DEF Finish, RunnerTypeOK, Submitted
<1>4. ASSUME NEW p \in Pools, Start(p)
      PROVE  RunnerTypeOK'
    <2>1. Head(queue[p]) \in Submitted /\ Tail(queue[p]) \in Seq(Submitted)
        BY <1>4 DEF Start, ThreadFree, RunnerTypeOK
    <2> QED
        BY <1>4, <2>1 DEF Start, RunnerTypeOK, Submitted
<1>5. ASSUME NEW p \in Pools, Skip(p)
      PROVE  RunnerTypeOK'
    <2>1. Head(queue[p]) \in Submitted /\ Tail(queue[p]) \in Seq(Submitted)
        BY <1>5 DEF Skip, ThreadFree, RunnerTypeOK
    <2> QED
        BY <1>5, <2>1 DEF Skip, RunnerTypeOK, Submitted
<1>6. ASSUME NEW c \in running, Complete(c)
      PROVE  RunnerTypeOK'
    BY <1>6 DEF Complete, RunnerTypeOK, Submitted
<1>7. CASE UNCHANGED runnerVars
    BY <1>7 DEF runnerVars, RunnerTypeOK, Submitted
<1> QED
    BY <1>1, <1>2, <1>3, <1>4, <1>5, <1>6, <1>7 DEF RunnerNext, Worker

\* Every reachable state of the runner is well typed.
THEOREM RunnerTypes == RunnerSpec => []RunnerTypeOK
BY RunnerTypeInit, RunnerTypeStep, PTL DEF RunnerSpec

-----------------------------------------------------------------------------
(* The inductive invariant. *)

Below(A, B) == \A a \in A, b \in B : a < b

\* A live call is at one place, once; each queue holds calls of its pool, in
\* arrival order.
Placement ==
    /\ \A p \in Pools :
        /\ Increasing(queue[p])
        /\ \A c \in InSeq(queue[p]) : calls[c].pool = p
        /\ InSeq(queue[p]) \cap running = {}
        /\ InSeq(queue[p]) \cap InSeq(posted) = {}
    /\ Distinct(posted)
    /\ running \cap InSeq(posted) = {}

Serial(S) == {c \in S : calls[c].pool = "serialPool"}

\* Calls of the serial pool go through the stages of a call in arrival order.
SerialOrder ==
    /\ \A c, d \in Serial(running) : c = d
    /\ \A k, l \in DOMAIN posted :
        /\ k < l
        /\ calls[posted[k]].pool = "serialPool"
        /\ calls[posted[l]].pool = "serialPool"
        => posted[k] < posted[l]
    /\ Below(Serial(running), InSeq(queue["serialPool"]))
    /\ Below(Serial(InSeq(posted)), InSeq(queue["serialPool"]))
    /\ Below(Serial(InSeq(posted)), Serial(running))
    /\ Below(Serial(Done), Serial(Live))

RunnerInv ==
    /\ RunnerTypeOK
    /\ Placement
    /\ FlagOwner
    /\ Settled
    /\ SerialOrder

-----------------------------------------------------------------------------
(* Where each action moves a call. *)

\* A call has an id and a pool.
LEMMA CallTypes ==
    ASSUME RunnerTypeOK, NEW c \in Submitted
    PROVE  calls[c].id \in Ids /\ calls[c].pool \in Pools
<1>1. calls \in Seq([id : Ids, pool : Pools]) /\ c \in DOMAIN calls
    BY DEF RunnerTypeOK, Submitted
<1> DEFINE CallSet == [id : Ids, pool : Pools]
<1>2. calls[c] \in CallSet
    <2>1. calls \in Seq(CallSet) /\ c \in DOMAIN calls
        BY <1>1
    <2> HIDE DEF CallSet
    <2> QED
        BY <2>1, SeqElement
<1> QED
    BY <1>2

\* The elements of the queues and of the event queue are calls.
LEMMA Members ==
    ASSUME RunnerTypeOK
    PROVE  /\ \A p \in Pools : InSeq(queue[p]) \subseteq Submitted
           /\ InSeq(posted) \subseteq Submitted
           /\ running \subseteq Submitted
           /\ Submitted \subseteq Nat \ {0}
           /\ Live \subseteq Submitted
<1>1. \A p \in Pools : queue[p] \in Seq(Submitted)
    BY DEF RunnerTypeOK
<1>2. \A p \in Pools : InSeq(queue[p]) \subseteq Submitted
    BY <1>1 DEF InSeq
<1>3. InSeq(posted) \subseteq Submitted
    BY DEF InSeq, RunnerTypeOK
<1>4. Submitted \subseteq Nat \ {0}
    BY DEF Submitted, RunnerTypeOK
<1>5. running \subseteq Submitted
    BY DEF RunnerTypeOK
<1>6. "pool" \in Pools /\ "serialPool" \in Pools
    BY DEF Pools
<1> QED
    BY <1>2, <1>3, <1>4, <1>5, <1>6 DEF Live

\* submit() makes one more call live, and moves no other.
LEMMA SubmitMoves ==
    ASSUME NEW i \in Ids, NEW p \in Pools, RunnerInv, Submit(i, p)
    PROVE  LET c == Len(calls) + 1 IN
           /\ InSeq(queue'[p]) = InSeq(queue[p]) \cup {c}
           /\ \A q \in Pools \ {p} : queue'[q] = queue[q]
           /\ Live' = Live \cup {c}
           /\ Done' = Done
           /\ c \notin Live
           /\ \A d \in Submitted : d < c
<1> DEFINE c == Len(calls) + 1
<1>0. RunnerTypeOK
    BY DEF RunnerInv
<1>1. /\ Submitted' = Submitted \cup {c}
      /\ c \notin Submitted
      /\ \A d \in Submitted : d < c
    <2>1. /\ Len(calls) \in Nat /\ Submitted = 1..Len(calls)
          /\ Submitted' = Submitted \cup {c}
          /\ c \notin Submitted
        BY <1>0, SubmitCalls
    <2>2. \A d \in Submitted : d < c
        BY <2>1
    <2> QED
        BY <2>1, <2>2
<1>2. /\ queue[p] \in Seq(Submitted')
      /\ queue'[p] = Append(queue[p], c)
      /\ \A q \in Pools \ {p} : queue'[q] = queue[q]
    <2>1. queue[p] \in Seq(Submitted)
        BY <1>0 DEF RunnerTypeOK
    <2>2. queue[p] \in Seq(Submitted')
        BY <2>1, <1>1
    <2>3. queue \in [Pools -> Seq(Submitted)]
        BY <1>0 DEF RunnerTypeOK
    <2>4. queue' = [queue EXCEPT ![p] = Append(@, c)]
        BY DEF Submit
    <2> QED
        BY <2>2, <2>3, <2>4
<1>3. InSeq(queue'[p]) = InSeq(queue[p]) \cup {c}
    BY <1>1, <1>2, InSeqAppend
<1>4. p = "pool" \/ p = "serialPool"
    BY DEF Pools
<1>5. running' = running /\ posted' = posted
    BY DEF Submit
<1>6. "pool" \in Pools /\ "serialPool" \in Pools /\ "pool" # "serialPool"
    BY DEF Pools
<1>7. Live' = Live \cup {c}
    <2>1. Live' = InSeq(queue'["pool"]) \cup InSeq(queue'["serialPool"])
                      \cup running \cup InSeq(posted)
        BY <1>5 DEF Live
    <2>2. CASE p = "pool"
        <3>1. queue'["serialPool"] = queue["serialPool"]
            BY <1>2, <1>6, <2>2
        <3> QED
            BY <1>3, <2>1, <2>2, <3>1 DEF Live
    <2>3. CASE p = "serialPool"
        <3>1. queue'["pool"] = queue["pool"]
            BY <1>2, <1>6, <2>3
        <3> QED
            BY <1>3, <2>1, <2>3, <3>1 DEF Live
    <2> QED
        BY <1>4, <2>2, <2>3
<1>8. c \notin Live
    BY <1>0, <1>1, Members
<1>9. Done' = Done
    BY <1>1, <1>7, <1>8 DEF Done
<1> QED
    BY <1>1, <1>2, <1>3, <1>7, <1>8, <1>9

\* A worker takes the head of its queue.
LEMMA TakeMoves ==
    ASSUME NEW p \in Pools, RunnerInv, ThreadFree(p),
           queue' = [queue EXCEPT ![p] = Tail(@)]
    PROVE  LET c == Head(queue[p]) IN
           /\ c \in Submitted /\ calls[c].pool = p
           /\ c \in InSeq(queue[p])
           /\ InSeq(queue'[p]) = InSeq(queue[p]) \ {c}
           /\ \A q \in Pools \ {p} : queue'[q] = queue[q]
           /\ \A d \in InSeq(queue'[p]) : c < d
           /\ \A q \in Pools : Increasing(queue'[q])
           /\ \A q \in Pools : InSeq(queue'[q]) \subseteq InSeq(queue[q])
           /\ \A q \in Pools : q # p => c \notin InSeq(queue[q])
<1> DEFINE c == Head(queue[p])
<1>1. /\ RunnerTypeOK
      /\ \A q \in Pools : Increasing(queue[q]) /\ \A d \in InSeq(queue[q]) : calls[d].pool = q
    BY DEF RunnerInv, Placement
<1>2. \A q \in Pools : queue[q] \in Seq(Submitted) /\ queue[q] \in Seq(Nat)
    <2>1. Submitted \subseteq Nat
        BY <1>1, Members
    <2>2. \A q \in Pools : queue[q] \in Seq(Submitted)
        BY <1>1 DEF RunnerTypeOK
    <2> QED
        BY <2>1, <2>2, SeqMonotonic
<1>3. queue[p] # <<>>
    BY DEF ThreadFree
<1>4. /\ Increasing(Tail(queue[p])) /\ Distinct(queue[p])
      /\ \A d \in InSeq(queue[p]) : d = c \/ c < d
    BY <1>1, <1>2, <1>3, IncreasingTail
<1>5. c \in InSeq(queue[p]) /\ InSeq(Tail(queue[p])) = InSeq(queue[p]) \ {c}
    BY <1>2, <1>3, <1>4, InSeqTail
<1>6. queue'[p] = Tail(queue[p]) /\ \A q \in Pools \ {p} : queue'[q] = queue[q]
    <2>1. queue \in [Pools -> Seq(Submitted)]
        BY <1>1 DEF RunnerTypeOK
    <2> QED
        BY <2>1
<1>7. c \in Submitted /\ calls[c].pool = p
    BY <1>1, <1>5, Members
<1>8. \A d \in InSeq(queue'[p]) : c < d
    BY <1>4, <1>5, <1>6
<1>9. \A q \in Pools : Increasing(queue'[q])
    BY <1>1, <1>4, <1>6
<1>10. \A q \in Pools : InSeq(queue'[q]) \subseteq InSeq(queue[q])
    BY <1>5, <1>6
<1>11. \A q \in Pools : q # p => c \notin InSeq(queue[q])
    BY <1>1, <1>7
<1> QED
    BY <1>5, <1>6, <1>7, <1>8, <1>9, <1>10, <1>11

\* Starting, skipping and completing a call keep it live.
LEMMA StartMoves ==
    ASSUME NEW p \in Pools, RunnerInv, Start(p)
    PROVE  Live' = Live /\ Done' = Done
<1>1. /\ Head(queue[p]) \in InSeq(queue[p])
      /\ InSeq(queue'[p]) = InSeq(queue[p]) \ {Head(queue[p])}
      /\ \A q \in Pools \ {p} : queue'[q] = queue[q]
    BY TakeMoves DEF Start
<1>2. /\ running' = running \cup {Head(queue[p])}
      /\ posted' = posted /\ calls' = calls
    BY DEF Start
<1>3. Live' = Live
    <2>1. CASE p = "pool"
        BY <1>1, <1>2, <2>1 DEF Live, Pools
    <2>2. CASE p = "serialPool"
        BY <1>1, <1>2, <2>2 DEF Live, Pools
    <2> QED
        BY <2>1, <2>2 DEF Pools
<1> QED
    BY <1>2, <1>3 DEF Done, Submitted

\* A cancelled call goes from its queue to the event queue.
LEMMA SkipMoves ==
    ASSUME NEW p \in Pools, RunnerInv, Skip(p)
    PROVE  /\ Live' = Live /\ Done' = Done
           /\ InSeq(posted') = InSeq(posted) \cup {Head(queue[p])}
<1>1. /\ Head(queue[p]) \in InSeq(queue[p])
      /\ Head(queue[p]) \in Submitted
      /\ InSeq(queue'[p]) = InSeq(queue[p]) \ {Head(queue[p])}
      /\ \A q \in Pools \ {p} : queue'[q] = queue[q]
    BY TakeMoves DEF Skip
<1>2. /\ posted' = Append(posted, Head(queue[p]))
      /\ running' = running /\ calls' = calls
      /\ posted \in Seq(Submitted)
    BY DEF Skip, RunnerInv, RunnerTypeOK
<1>3. InSeq(posted') = InSeq(posted) \cup {Head(queue[p])}
    BY <1>1, <1>2, InSeqAppend
<1>4. Live' = Live
    <2>1. CASE p = "pool"
        BY <1>1, <1>2, <1>3, <2>1 DEF Live, Pools
    <2>2. CASE p = "serialPool"
        BY <1>1, <1>2, <1>3, <2>2 DEF Live, Pools
    <2> QED
        BY <2>1, <2>2 DEF Pools
<1> QED
    BY <1>2, <1>3, <1>4 DEF Done, Submitted

\* A call whose tool returned goes from a worker to the event queue.
LEMMA CompleteMoves ==
    ASSUME NEW c \in running, RunnerInv, Complete(c)
    PROVE  /\ Live' = Live /\ Done' = Done
           /\ InSeq(posted') = InSeq(posted) \cup {c}
           /\ c \in Submitted
<1>1. /\ posted' = Append(posted, c) /\ running' = running \ {c}
      /\ queue' = queue /\ calls' = calls
      /\ posted \in Seq(Submitted) /\ c \in Submitted
    BY DEF Complete, RunnerInv, RunnerTypeOK
<1>2. InSeq(posted') = InSeq(posted) \cup {c}
    BY <1>1, InSeqAppend
<1>3. Live' = Live
    BY <1>1, <1>2 DEF Live
<1> QED
    BY <1>1, <1>2, <1>3 DEF Done, Submitted

\* finish() ends one call.
LEMMA FinishMoves ==
    ASSUME RunnerInv, Finish
    PROVE  LET c == Head(posted) IN
           /\ c \in InSeq(posted) /\ c \in Submitted /\ c \in Live
           /\ InSeq(posted') = InSeq(posted) \ {c}
           /\ Live' = Live \ {c}
           /\ Done' = Done \cup {c}
           /\ inFlight[calls[c].id] = c
           /\ EmitsResult(c) <=> c \notin cancelled
<1> DEFINE c == Head(posted)
<1>1. /\ posted \in Seq(Submitted) /\ posted # <<>> /\ Distinct(posted)
      /\ RunnerTypeOK
    BY DEF RunnerInv, RunnerTypeOK, Placement, Finish
<1>2. c \in InSeq(posted) /\ InSeq(Tail(posted)) = InSeq(posted) \ {c}
    BY <1>1, InSeqTail
<1>3. /\ posted' = Tail(posted) /\ queue' = queue /\ running' = running
      /\ calls' = calls
    BY DEF Finish
<1>4. c \in Submitted /\ c \in Live /\ c # None
    BY <1>1, <1>2, Members DEF Live, None
<1>5. Live' = Live \ {c}
    <2>1. c \notin running /\ \A p \in Pools : c \notin InSeq(queue[p])
        BY <1>2 DEF RunnerInv, Placement
    <2> QED
        BY <1>2, <1>3, <2>1 DEF Live, Pools
<1>6. Done' = Done \cup {c}
    BY <1>3, <1>4, <1>5 DEF Done, Submitted
<1>7. inFlight[calls[c].id] = c
    BY <1>4 DEF RunnerInv, FlagOwner
<1>8. EmitsResult(c) <=> c \notin cancelled
    BY <1>4, <1>7 DEF EmitsResult
<1> QED
    BY <1>2, <1>3, <1>4, <1>5, <1>6, <1>7, <1>8

-----------------------------------------------------------------------------
(* The actions preserve the invariant. *)

\* The strengthened invariant holds when the runner is built.
LEMMA InvInit == RunnerInit => RunnerInv
<1> SUFFICES ASSUME RunnerInit PROVE RunnerInv
    OBVIOUS
<1>1. RunnerTypeOK
    BY RunnerTypeInit
<1>2. /\ \A p \in Pools : queue[p] = <<>>
      /\ posted = <<>> /\ running = {} /\ delivered = {} /\ cancelled = {}
      /\ calls = <<>> /\ \A i \in Ids : inFlight[i] = None
    BY DEF RunnerInit
<1>3. InSeq(<<>>) = {} /\ Increasing(<<>>) /\ Distinct(<<>>)
    BY DEF InSeq, Increasing, Distinct
<1>4. Live = {} /\ Submitted = {} /\ Done = {}
    BY <1>2, <1>3 DEF Live, Done, Submitted, Pools
<1>5. Placement
    BY <1>2, <1>3 DEF Placement
<1>6. FlagOwner /\ Settled
    BY <1>2, <1>4 DEF FlagOwner, Settled
<1>7. SerialOrder
    <2>1. DOMAIN posted = {}
        BY <1>2
    <2> QED
        BY <1>2, <1>3, <1>4, <2>1 DEF SerialOrder, Serial, Below
<1> QED
    BY <1>1, <1>5, <1>6, <1>7 DEF RunnerInv

\* submit() keeps the strengthened invariant.
LEMMA SubmitInv ==
    ASSUME NEW i \in Ids, NEW p \in Pools, RunnerInv, Submit(i, p), RunnerTypeOK'
    PROVE  RunnerInv'
<1> DEFINE c == Len(calls) + 1
<1>1. /\ RunnerTypeOK /\ Placement /\ FlagOwner /\ Settled /\ SerialOrder
    BY DEF RunnerInv
<1>2. /\ InSeq(queue'[p]) = InSeq(queue[p]) \cup {c}
      /\ \A q \in Pools \ {p} : queue'[q] = queue[q]
      /\ Live' = Live \cup {c}
      /\ Done' = Done
      /\ c \notin Live
      /\ \A d \in Submitted : d < c
    BY SubmitMoves
<1>3. /\ c \in Nat
      /\ c \notin Submitted
      /\ calls'[c] = [id |-> i, pool |-> p]
      /\ \A d \in Submitted : calls'[d] = calls[d]
    BY <1>1, SubmitCalls
<1>4. /\ inFlight[i] = None
      /\ inFlight' = [inFlight EXCEPT ![i] = c]
      /\ queue' = [queue EXCEPT ![p] = Append(@, c)]
      /\ running' = running /\ posted' = posted
      /\ cancelled' = cancelled /\ delivered' = delivered
    BY DEF Submit
<1>5. /\ \A q \in Pools : InSeq(queue[q]) \subseteq Submitted
      /\ InSeq(posted) \subseteq Submitted /\ running \subseteq Submitted
      /\ Live \subseteq Submitted /\ Done \subseteq Submitted
      /\ Submitted \subseteq Nat \ {0}
    BY <1>1, Members DEF Done
<1>6. Placement'
    <2>1. \A q \in Pools : Increasing(queue'[q])
        <3>1. queue'[p] = Append(queue[p], c) /\ queue[p] \in Seq(Submitted)
            BY <1>1, <1>4 DEF RunnerTypeOK
        <3>2. queue[p] \in Seq(Nat)
            BY <1>5, <3>1, SeqMonotonic
        <3>3. Increasing(queue'[p])
            BY <1>1, <1>2, <1>3, <1>5, <3>1, <3>2, IncreasingAppend DEF Placement
        <3> QED
            BY <1>1, <1>2, <3>3 DEF Placement
    <2>2. \A q \in Pools : \A d \in InSeq(queue'[q]) : calls'[d].pool = q
        <3>1. \A d \in InSeq(queue'[p]) : calls'[d].pool = p
            <4>1. \A d \in InSeq(queue[p]) : calls[d].pool = p /\ calls'[d] = calls[d]
                BY <1>1, <1>3, <1>5 DEF Placement
            <4>2. calls'[c].pool = p
                BY <1>3
            <4> QED
                BY <1>2, <4>1, <4>2
        <3>2. \A q \in Pools \ {p} : \A d \in InSeq(queue[q]) : calls'[d].pool = q
            BY <1>1, <1>3, <1>5 DEF Placement
        <3> QED
            BY <1>2, <3>1, <3>2
    <2>3. \A q \in Pools : /\ InSeq(queue'[q]) \cap running = {}
                           /\ InSeq(queue'[q]) \cap InSeq(posted) = {}
        BY <1>1, <1>2, <1>3, <1>5 DEF Placement
    <2> QED
        BY <1>1, <1>4, <2>1, <2>2, <2>3 DEF Placement
<1>7. FlagOwner'
    <2>1. \A d \in Live : calls[d].id # i
        BY <1>1, <1>4, <1>5 DEF FlagOwner, None
    <2>2. \A d \in Live : calls'[d] = calls[d]
        BY <1>3, <1>5
    <2>3. inFlight \in [Ids -> {None} \cup Submitted] /\ \A d \in Live : calls[d].id \in Ids
        BY <1>1, <1>5, CallTypes DEF RunnerTypeOK
    <2>4. \A d \in Live' : inFlight'[calls'[d].id] = d
        BY <1>1, <1>2, <1>3, <1>4, <2>1, <2>2, <2>3 DEF FlagOwner
    <2>5. \A j \in Ids : inFlight'[j] # None =>
            inFlight'[j] \in Live' /\ calls'[inFlight'[j]].id = j
        BY <1>1, <1>2, <1>3, <1>4, <2>2, <2>3 DEF FlagOwner
    <2> QED
        BY <2>4, <2>5 DEF FlagOwner
<1>8. Settled'
    BY <1>1, <1>2, <1>3, <1>4, <1>5 DEF Settled, RunnerTypeOK
<1>9. SerialOrder'
    <2>1. \A S \in SUBSET Submitted : Serial(S)' = Serial(S)
        BY <1>3 DEF Serial
    <2>2. Serial(running)' = Serial(running)
        BY <1>3, <1>4, <1>5 DEF Serial
    <2>3. Serial(InSeq(posted))' = Serial(InSeq(posted))
        BY <1>3, <1>4, <1>5 DEF Serial, InSeq
    <2>4. Serial(Done)' = Serial(Done)
        BY <1>2, <1>3, <1>5 DEF Serial
    <2>5. Serial(Live)' \subseteq Serial(Live) \cup {c}
        BY <1>2, <1>3, <1>5 DEF Serial
    <2>6. InSeq(queue["serialPool"])' \subseteq InSeq(queue["serialPool"]) \cup {c}
        BY <1>2 DEF Pools
    <2>7. /\ \A d \in Serial(running) : d < c
          /\ \A d \in Serial(InSeq(posted)) : d < c
          /\ \A d \in Serial(Done) : d < c
        BY <1>2, <1>5 DEF Serial
    <2>8. \A k, l \in DOMAIN posted' :
            /\ k < l
            /\ calls'[posted'[k]].pool = "serialPool"
            /\ calls'[posted'[l]].pool = "serialPool"
            => posted'[k] < posted'[l]
        <3>1. \A k \in DOMAIN posted : posted[k] \in Submitted
            BY <1>5 DEF InSeq
        <3> QED
            BY <1>1, <1>3, <1>4, <3>1 DEF SerialOrder
    <2>9. /\ \A a, b \in Serial(running)' : a = b
          /\ Below(Serial(running), InSeq(queue["serialPool"]))'
        BY <1>1, <2>2, <2>6, <2>7 DEF SerialOrder, Below
    <2>10. /\ Below(Serial(InSeq(posted)), InSeq(queue["serialPool"]))'
           /\ Below(Serial(InSeq(posted)), Serial(running))'
        BY <1>1, <2>2, <2>3, <2>6, <2>7 DEF SerialOrder, Below
    <2>11. Below(Serial(Done), Serial(Live))'
        BY <1>1, <2>4, <2>5, <2>7 DEF SerialOrder, Below
    <2> QED
        BY <2>8, <2>9, <2>10, <2>11 DEF SerialOrder
<1> QED
    BY <1>6, <1>7, <1>8, <1>9 DEF RunnerInv

\* cancel() keeps the strengthened invariant.
LEMMA CancelInv ==
    ASSUME NEW i \in Ids, RunnerInv, Cancel(i), RunnerTypeOK'
    PROVE  RunnerInv'
<1>1. /\ RunnerTypeOK /\ Placement /\ FlagOwner /\ Settled /\ SerialOrder
    BY DEF RunnerInv
<1>2. /\ inFlight[i] # None /\ cancelled' = cancelled \cup {inFlight[i]}
      /\ calls' = calls /\ inFlight' = inFlight /\ queue' = queue
      /\ running' = running /\ posted' = posted /\ delivered' = delivered
    BY DEF Cancel
<1>3. Live' = Live /\ Done' = Done
    BY <1>2 DEF Live, Done, Submitted
<1>4. inFlight[i] \in Live
    BY <1>1, <1>2 DEF FlagOwner
<1>5. Placement' /\ FlagOwner'
    BY <1>1, <1>2, <1>3 DEF Placement, FlagOwner
<1>6. Settled'
    BY <1>1, <1>2, <1>3, <1>4 DEF Settled, Done
<1>7. SerialOrder'
    BY <1>1, <1>2, <1>3 DEF SerialOrder, Serial, Below
<1> QED
    BY <1>5, <1>6, <1>7 DEF RunnerInv

\* The only worker of the serial pool starts a call when none is running.
LEMMA SerialIdle ==
    ASSUME RunnerInv, ThreadFree("serialPool")
    PROVE  Serial(running) = {}
<1>1. running \subseteq 1..Len(calls) /\ Len(calls) \in Nat
    BY DEF RunnerInv, RunnerTypeOK, Submitted
<1>2. IsFiniteSet(Active("serialPool"))
    <2>1. IsFiniteSet(1..Len(calls))
        BY <1>1, FS_Interval
    <2> QED
        BY <1>1, <2>1, FS_Subset DEF Active
<1>3. Cardinality(Active("serialPool")) \in Nat
    BY <1>2, FS_CardinalityType
<1>4. Cardinality(Active("serialPool")) < 1
    BY DEF ThreadFree, MaxThreads
<1>5. Active("serialPool") = {}
    <2>1. Cardinality(Active("serialPool")) = 0
        BY <1>3, <1>4
    <2> QED
        BY <1>2, <2>1, FS_EmptySet
<1> QED
    BY <1>5 DEF Active, Serial

\* So does the start of a tool.
LEMMA StartInv ==
    ASSUME NEW p \in Pools, RunnerInv, Start(p), RunnerTypeOK'
    PROVE  RunnerInv'
<1> DEFINE c == Head(queue[p])
<1>1. /\ RunnerTypeOK /\ Placement /\ FlagOwner /\ Settled /\ SerialOrder
    BY DEF RunnerInv
<1>2. /\ c \in Submitted /\ calls[c].pool = p
      /\ c \in InSeq(queue[p])
      /\ InSeq(queue'[p]) = InSeq(queue[p]) \ {c}
      /\ \A q \in Pools \ {p} : queue'[q] = queue[q]
      /\ \A d \in InSeq(queue'[p]) : c < d
      /\ \A q \in Pools : Increasing(queue'[q])
      /\ \A q \in Pools : InSeq(queue'[q]) \subseteq InSeq(queue[q])
      /\ \A q \in Pools : q # p => c \notin InSeq(queue[q])
    BY TakeMoves DEF Start
<1>3. Live' = Live /\ Done' = Done
    BY StartMoves
<1>4. /\ ThreadFree(p)
      /\ running' = running \cup {c} /\ calls' = calls /\ posted' = posted
      /\ inFlight' = inFlight /\ cancelled' = cancelled /\ delivered' = delivered
    BY DEF Start
<1>5. Placement'
    <2>1. \A q \in Pools : c \notin InSeq(queue'[q])
        BY <1>2
    <2>2. c \notin InSeq(posted)
        BY <1>1, <1>2 DEF Placement
    <2> QED
        BY <1>1, <1>2, <1>4, <2>1, <2>2 DEF Placement
<1>6. FlagOwner' /\ Settled'
    BY <1>1, <1>3, <1>4 DEF FlagOwner, Settled
<1>7. SerialOrder'
    <2>1. CASE p = "serialPool"
        <3>1. Serial(running)' = {c}
            BY <1>2, <1>4, <2>1, SerialIdle DEF Serial
        <3>2. Below(Serial(running), InSeq(queue["serialPool"]))'
            BY <1>2, <2>1, <3>1 DEF Below
        <3>3. /\ Below(Serial(InSeq(posted)), InSeq(queue["serialPool"]))'
              /\ Below(Serial(InSeq(posted)), Serial(running))'
            BY <1>1, <1>2, <1>4, <2>1, <3>1 DEF SerialOrder, Below, Serial
        <3> QED
            BY <1>1, <1>3, <1>4, <3>1, <3>2, <3>3 DEF SerialOrder, Serial, Below
    <2>2. CASE p # "serialPool"
        <3>1. Serial(running)' = Serial(running)
            BY <1>2, <1>4, <2>2 DEF Serial
        <3>2. queue'["serialPool"] = queue["serialPool"]
            BY <1>2, <2>2 DEF Pools
        <3> QED
            BY <1>1, <1>3, <1>4, <3>1, <3>2 DEF SerialOrder, Serial, Below
    <2> QED
        BY <2>1, <2>2
<1> QED
    BY <1>5, <1>6, <1>7 DEF RunnerInv

\* Appending a call to the event queue keeps the serial calls in it sorted.
LEMMA PostSorted ==
    ASSUME RunnerInv, NEW c \in Submitted, posted' = Append(posted, c),
           calls' = calls, c \notin InSeq(posted),
           calls[c].pool = "serialPool" => \A d \in Serial(InSeq(posted)) : d < c
    PROVE  /\ Distinct(posted')
           /\ \A k, l \in DOMAIN posted' :
                /\ k < l
                /\ calls'[posted'[k]].pool = "serialPool"
                /\ calls'[posted'[l]].pool = "serialPool"
                => posted'[k] < posted'[l]
<1>1. posted \in Seq(Submitted) /\ Distinct(posted)
    BY DEF RunnerInv, RunnerTypeOK, Placement
<1>2. Distinct(posted')
    BY <1>1, DistinctAppend
<1>3. /\ DOMAIN posted' = 1..(Len(posted) + 1) /\ DOMAIN posted = 1..Len(posted)
      /\ posted'[Len(posted) + 1] = c
      /\ \A k \in 1..Len(posted) : posted'[k] = posted[k]
      /\ Len(posted) \in Nat
    BY <1>1
<1>4. ASSUME NEW k \in DOMAIN posted', NEW l \in DOMAIN posted', k < l,
             calls[posted'[k]].pool = "serialPool",
             calls[posted'[l]].pool = "serialPool"
      PROVE  posted'[k] < posted'[l]
    <2>1. k \in 1..Len(posted) /\ posted'[k] \in InSeq(posted)
        BY <1>3, <1>4 DEF InSeq
    <2>2. CASE l \in 1..Len(posted)
        BY <1>3, <1>4, <2>1, <2>2 DEF RunnerInv, SerialOrder
    <2>3. CASE l = Len(posted) + 1
        BY <1>3, <1>4, <2>1, <2>3 DEF Serial
    <2> QED
        BY <1>3, <2>2, <2>3
<1> QED
    BY <1>2, <1>4

\* So does the skipping of a call cancelled while it waited.
LEMMA SkipInv ==
    ASSUME NEW p \in Pools, RunnerInv, Skip(p), RunnerTypeOK'
    PROVE  RunnerInv'
<1> DEFINE c == Head(queue[p])
<1>1. /\ RunnerTypeOK /\ Placement /\ FlagOwner /\ Settled /\ SerialOrder
    BY DEF RunnerInv
<1>2. /\ c \in Submitted /\ calls[c].pool = p
      /\ c \in InSeq(queue[p])
      /\ InSeq(queue'[p]) = InSeq(queue[p]) \ {c}
      /\ \A q \in Pools \ {p} : queue'[q] = queue[q]
      /\ \A d \in InSeq(queue'[p]) : c < d
      /\ \A q \in Pools : Increasing(queue'[q])
      /\ \A q \in Pools : InSeq(queue'[q]) \subseteq InSeq(queue[q])
      /\ \A q \in Pools : q # p => c \notin InSeq(queue[q])
    BY TakeMoves DEF Skip
<1>3. /\ Live' = Live /\ Done' = Done
      /\ InSeq(posted') = InSeq(posted) \cup {c}
    BY SkipMoves
<1>4. /\ ThreadFree(p)
      /\ posted' = Append(posted, c) /\ calls' = calls /\ running' = running
      /\ inFlight' = inFlight /\ cancelled' = cancelled /\ delivered' = delivered
    BY DEF Skip
<1>5. c \notin InSeq(posted) /\ c \notin running
    BY <1>1, <1>2 DEF Placement
<1>6. calls[c].pool = "serialPool" => \A d \in Serial(InSeq(posted)) : d < c
    BY <1>1, <1>2 DEF SerialOrder, Below
<1>7. /\ Distinct(posted')
      /\ \A k, l \in DOMAIN posted' :
            /\ k < l
            /\ calls'[posted'[k]].pool = "serialPool"
            /\ calls'[posted'[l]].pool = "serialPool"
            => posted'[k] < posted'[l]
    BY <1>2, <1>4, <1>5, <1>6, PostSorted
<1>8. Placement'
    <2>1. \A q \in Pools : c \notin InSeq(queue'[q])
        BY <1>2
    <2> QED
        BY <1>1, <1>2, <1>3, <1>4, <1>5, <1>7, <2>1 DEF Placement
<1>9. FlagOwner' /\ Settled'
    BY <1>1, <1>3, <1>4 DEF FlagOwner, Settled
<1>10. SerialOrder'
    <2>1. CASE p = "serialPool"
        <3>1. Serial(running) = {}
            BY <1>4, <2>1, SerialIdle
        <3>2. Serial(running)' = {}
            BY <1>4, <3>1 DEF Serial
        <3>3. Below(Serial(InSeq(posted)), InSeq(queue["serialPool"]))'
            BY <1>1, <1>2, <1>3, <1>4, <2>1 DEF SerialOrder, Below, Serial
        <3> QED
            BY <1>1, <1>3, <1>4, <1>7, <3>2, <3>3 DEF SerialOrder, Serial, Below
    <2>2. CASE p # "serialPool"
        <3>1. Serial(InSeq(posted))' = Serial(InSeq(posted))
            BY <1>2, <1>3, <1>4, <2>2 DEF Serial
        <3>2. queue'["serialPool"] = queue["serialPool"]
            BY <1>2, <2>2 DEF Pools
        <3> QED
            BY <1>1, <1>3, <1>4, <1>7, <3>1, <3>2 DEF SerialOrder, Serial, Below
    <2> QED
        BY <2>1, <2>2
<1> QED
    BY <1>8, <1>9, <1>10 DEF RunnerInv

\* So does the return of a tool.
LEMMA CompleteInv ==
    ASSUME NEW c \in running, RunnerInv, Complete(c), RunnerTypeOK'
    PROVE  RunnerInv'
<1>1. /\ RunnerTypeOK /\ Placement /\ FlagOwner /\ Settled /\ SerialOrder
    BY DEF RunnerInv
<1>2. /\ Live' = Live /\ Done' = Done
      /\ InSeq(posted') = InSeq(posted) \cup {c}
      /\ c \in Submitted
    BY CompleteMoves
<1>3. /\ posted' = Append(posted, c) /\ calls' = calls /\ queue' = queue
      /\ running' = running \ {c}
      /\ inFlight' = inFlight /\ cancelled' = cancelled /\ delivered' = delivered
    BY DEF Complete
<1>4. c \notin InSeq(posted) /\ \A q \in Pools : c \notin InSeq(queue[q])
    BY <1>1 DEF Placement
<1>5. calls[c].pool = "serialPool" => \A d \in Serial(InSeq(posted)) : d < c
    BY <1>1 DEF SerialOrder, Below, Serial
<1>6. /\ Distinct(posted')
      /\ \A k, l \in DOMAIN posted' :
            /\ k < l
            /\ calls'[posted'[k]].pool = "serialPool"
            /\ calls'[posted'[l]].pool = "serialPool"
            => posted'[k] < posted'[l]
    BY <1>2, <1>3, <1>4, <1>5, PostSorted
<1>7. Placement'
    BY <1>1, <1>2, <1>3, <1>4, <1>6 DEF Placement
<1>8. FlagOwner' /\ Settled'
    BY <1>1, <1>2, <1>3 DEF FlagOwner, Settled
<1>9. SerialOrder'
    <2>1. CASE calls[c].pool = "serialPool"
        <3>1. Serial(running)' = {}
            BY <1>1, <1>3, <2>1 DEF SerialOrder, Serial
        <3>2. Below(Serial(InSeq(posted)), InSeq(queue["serialPool"]))'
            BY <1>1, <1>2, <1>3, <2>1 DEF SerialOrder, Below, Serial
        <3> QED
            BY <1>1, <1>2, <1>3, <1>6, <3>1, <3>2 DEF SerialOrder, Serial, Below
    <2>2. CASE calls[c].pool # "serialPool"
        <3>1. /\ Serial(InSeq(posted))' = Serial(InSeq(posted))
              /\ Serial(running)' = Serial(running)
            BY <1>2, <1>3, <2>2 DEF Serial
        <3> QED
            BY <1>1, <1>2, <1>3, <1>6, <3>1 DEF SerialOrder, Serial, Below
    <2> QED
        BY <2>1, <2>2
<1> QED
    BY <1>7, <1>8, <1>9 DEF RunnerInv

\* So does finish(), which frees the id of its own call only.
LEMMA FinishInv ==
    ASSUME RunnerInv, Finish, RunnerTypeOK'
    PROVE  RunnerInv'
<1> DEFINE c == Head(posted)
<1>1. /\ RunnerTypeOK /\ Placement /\ FlagOwner /\ Settled /\ SerialOrder
    BY DEF RunnerInv
<1>2. /\ c \in InSeq(posted) /\ c \in Submitted /\ c \in Live
      /\ InSeq(posted') = InSeq(posted) \ {c}
      /\ Live' = Live \ {c}
      /\ Done' = Done \cup {c}
      /\ inFlight[calls[c].id] = c
      /\ EmitsResult(c) <=> c \notin cancelled
    BY FinishMoves
<1>3. /\ posted # <<>> /\ posted' = Tail(posted)
      /\ inFlight' = [inFlight EXCEPT ![calls[c].id] = None]
      /\ delivered' = IF EmitsResult(c) THEN delivered \cup {c} ELSE delivered
      /\ calls' = calls /\ cancelled' = cancelled /\ queue' = queue
      /\ running' = running
    BY DEF Finish
<1>4. posted \in Seq(Submitted) /\ Distinct(posted)
    BY <1>1 DEF RunnerTypeOK, Placement
<1>5. Placement'
    <2>1. Distinct(posted')
        BY <1>3, <1>4, DistinctTail
    <2> QED
        BY <1>1, <1>2, <1>3, <2>1 DEF Placement
<1>6. FlagOwner'
    <2>1. \A d \in Live : calls[d].id \in Ids
        BY <1>1, CallTypes, Members
    <2>2. \A d \in Live' : calls[d].id # calls[c].id
        BY <1>1, <1>2 DEF FlagOwner
    <2>3. \A d \in Live' : inFlight'[calls[d].id] = d
        BY <1>1, <1>2, <1>3, <2>1, <2>2 DEF FlagOwner, RunnerTypeOK
    <2>4. \A i \in Ids : inFlight'[i] # None =>
            inFlight'[i] \in Live' /\ calls[inFlight'[i]].id = i
        BY <1>1, <1>2, <1>3 DEF FlagOwner, RunnerTypeOK
    <2> QED
        BY <1>3, <2>3, <2>4 DEF FlagOwner
<1>7. Settled'
    BY <1>1, <1>2, <1>3 DEF Settled
<1>8. SerialOrder'
    <2>1. /\ DOMAIN posted' = 1..(Len(posted) - 1) /\ DOMAIN posted = 1..Len(posted)
          /\ Len(posted) \in Nat \ {0}
          /\ \A k \in DOMAIN posted' : posted'[k] = posted[k + 1]
          /\ c = posted[1]
        BY <1>3, <1>4
    <2>2. \A k, l \in DOMAIN posted' :
            /\ k < l
            /\ calls'[posted'[k]].pool = "serialPool"
            /\ calls'[posted'[l]].pool = "serialPool"
            => posted'[k] < posted'[l]
        <3>1. \A k \in DOMAIN posted' : k + 1 \in DOMAIN posted
            BY <2>1
        <3>2. \A k, l \in DOMAIN posted' : k < l => k + 1 < l + 1
            BY <2>1
        <3> QED
            BY <1>1, <1>3, <2>1, <3>1, <3>2 DEF SerialOrder
    <2>3. Serial(InSeq(posted))' \subseteq Serial(InSeq(posted))
        BY <1>2, <1>3 DEF Serial
    <2>4. /\ Serial(running)' = Serial(running)
          /\ InSeq(queue["serialPool"])' = InSeq(queue["serialPool"])
        BY <1>3 DEF Serial
    <2>5. Below(Serial(Done), Serial(Live))'
        <3>1. /\ Serial(Done)' \subseteq Serial(Done) \cup Serial({c})
              /\ Serial(Live)' \subseteq Serial(Live) \ {c}
            BY <1>2, <1>3 DEF Serial
        <3>2. ASSUME calls[c].pool = "serialPool", NEW d \in Serial(Live)'
              PROVE  c < d
            <4>1. d \in Live /\ d # c /\ calls[d].pool = "serialPool"
                BY <1>2, <1>3, <3>2 DEF Serial
            <4>2. CASE d \in InSeq(queue["serialPool"])
                BY <1>1, <1>2, <3>2, <4>2 DEF SerialOrder, Below, Serial
            <4>3. CASE d \in running
                BY <1>1, <1>2, <3>2, <4>1, <4>3 DEF SerialOrder, Below, Serial
            <4>4. CASE d \in InSeq(posted)
                <5>1. PICK k \in DOMAIN posted : posted[k] = d
                    BY <4>4 DEF InSeq
                <5>2. 1 < k /\ 1 \in DOMAIN posted
                    BY <2>1, <4>1, <5>1
                <5> QED
                    BY <1>1, <2>1, <3>2, <4>1, <5>1, <5>2 DEF SerialOrder
            <4>5. d \notin InSeq(queue["pool"])
                BY <1>1, <4>1 DEF Placement, Pools
            <4> QED
                BY <4>1, <4>2, <4>3, <4>4, <4>5 DEF Live
        <3>3. \A a \in Serial(Done), b \in Serial(Live) : a < b
            BY <1>1 DEF SerialOrder, Below
        <3> QED
            BY <3>1, <3>2, <3>3 DEF Below, Serial
    <2> QED
        BY <1>1, <2>2, <2>3, <2>4, <2>5 DEF SerialOrder, Below
<1> QED
    BY <1>5, <1>6, <1>7, <1>8 DEF RunnerInv

-----------------------------------------------------------------------------
(* The theorems. *)

\* The strengthened invariant is inductive.
LEMMA InvStep == RunnerInv /\ [RunnerNext]_runnerVars => RunnerInv'
<1> SUFFICES ASSUME RunnerInv, [RunnerNext]_runnerVars PROVE RunnerInv'
    OBVIOUS
<1>1. RunnerTypeOK'
    BY RunnerTypeStep DEF RunnerInv
<1>2. CASE UNCHANGED runnerVars
    <2>1. /\ calls' = calls /\ inFlight' = inFlight /\ cancelled' = cancelled
          /\ queue' = queue /\ running' = running /\ posted' = posted
          /\ delivered' = delivered
        BY <1>2 DEF runnerVars
    <2>2. Live' = Live /\ Done' = Done
        BY <2>1 DEF Live, Done, Submitted
    <2>3. Placement' /\ FlagOwner' /\ Settled'
        BY <2>1, <2>2 DEF RunnerInv, Placement, FlagOwner, Settled
    <2>4. SerialOrder'
        BY <2>1, <2>2 DEF RunnerInv, SerialOrder, Serial, Below
    <2> QED
        BY <1>1, <2>3, <2>4 DEF RunnerInv
<1>3. CASE RunnerNext
    BY <1>1, <1>3, SubmitInv, CancelInv, FinishInv, StartInv, SkipInv, CompleteInv
    DEF RunnerNext, Worker
<1> QED
    BY <1>2, <1>3

\* The strengthened invariant holds in every reachable state.
THEOREM RunnerInvariant == RunnerSpec => []RunnerInv
BY InvInit, InvStep, PTL DEF RunnerSpec

\* The flag and the id of a call in flight are its own: an id that is cancelled,
\* or used again, never lets the finish() of one call free or answer another.
THEOREM FlagsAreOwned == RunnerSpec => []FlagOwner
<1>1. RunnerInv => FlagOwner
    BY DEF RunnerInv
<1> QED
    BY <1>1, RunnerInvariant, PTL

\* A call that left the runner was delivered or cancelled, and never both.
THEOREM CallsSettle == RunnerSpec => []Settled
<1>1. RunnerInv => Settled
    BY DEF RunnerInv
<1> QED
    BY <1>1, RunnerInvariant, PTL

\* Plugin tools deliver their results in the order of the requests.
THEOREM SerialResults == RunnerSpec => []SerialResultsInOrder
<1>1. ASSUME RunnerInv PROVE SerialResultsInOrder
    <2> SUFFICES ASSUME NEW c \in Submitted, NEW d \in Submitted,
                        calls[c].pool = "serialPool", calls[d].pool = "serialPool",
                        c < d, d \in delivered
                 PROVE  c \in delivered \/ c \in cancelled
        BY DEF SerialResultsInOrder
    <2>1. /\ RunnerTypeOK /\ Settled /\ Below(Serial(Done), Serial(Live))
          /\ c \in Nat /\ d \in Nat
        BY <1>1, Members DEF RunnerInv, SerialOrder
    <2>2. d \in Serial(Done)
        BY <2>1 DEF Settled, Done, Serial
    <2>3. c \notin Live
        <3>1. SUFFICES ASSUME c \in Live PROVE FALSE
            OBVIOUS
        <3>2. d < c
            BY <2>1, <2>2, <3>1 DEF Below, Serial
        <3> QED
            BY <2>1, <3>2
    <2> QED
        BY <2>1, <2>3 DEF Settled, Done
<1> QED
    BY <1>1, RunnerInvariant, PTL

-----------------------------------------------------------------------------
(***************************************************************************)
(* The runner as start-up sets it up (module Bridge): whatever plugins are *)
(* loaded, and whatever names they give their tools, one of these tools    *)
(* runs at a time.                                                         *)
(***************************************************************************)

\* The registry and the sets of names agree on who brought a tool.
OwnersKnown ==
    /\ registry \in [Names -> {Nobody, "builtin", "plugin"}]
    /\ stage \in {"options", "plugins", "register"} =>
            \A n \in Names : registry[n] # "plugin"
    /\ stage = "registerPlugins" =>
            \A n \in Names : registry[n] = "builtin" <=> n \in builtinTools
    /\ stage = "serving" =>
            \A n \in Names : registry[n] = "plugin" <=> n \in serialized

\* Calls come when main() serves, and those to plugins go to the serial pool.
CallsRouted ==
    /\ stage # "serving" => calls = <<>>
    /\ called \in Seq(Names) /\ Len(called) = Len(calls)
    /\ \A c \in 1 .. Len(calls) : Owner(c) = "plugin" => calls[c].pool = "serialPool"

BridgeInv == OwnersKnown /\ CallsRouted

-----------------------------------------------------------------------------
(* The bridge uses its runner through the runner's own actions. *)

LEMMA BridgeRunnerStep == [BridgeNext]_bridgeVars => [RunnerNext]_runnerVars
<1> SUFFICES ASSUME [BridgeNext]_bridgeVars PROVE [RunnerNext]_runnerVars
    OBVIOUS
<1>1. CASE StartupNext /\ UNCHANGED <<runnerVars, called>>
    BY <1>1
<1>2. ASSUME NEW i \in Ids, NEW name \in Names, Call(i, name)
      PROVE  RunnerNext
    <2>1. Submit(i, PoolOf(name)) /\ PoolOf(name) \in Pools
        BY <1>2 DEF Call, PoolOf, Pools
    <2> QED
        BY <2>1 DEF RunnerNext
<1>3. CASE Run
    BY <1>3 DEF Run, RunnerNext
<1>4. CASE UNCHANGED bridgeVars
    BY <1>4 DEF bridgeVars
<1> QED
    BY <1>1, <1>2, <1>3, <1>4 DEF BridgeNext

\* What start-up registers only decides which calls the runner gets: every
\* behaviour of the bridge is one of its runner.
THEOREM BridgeUsesRunner == BridgeSpec => RunnerSpec
<1>1. BridgeInit => RunnerInit
    BY DEF BridgeInit
<1> QED
    BY <1>1, BridgeRunnerStep, PTL DEF BridgeSpec, RunnerSpec

-----------------------------------------------------------------------------
(* The inductive invariant. *)

LEMMA BridgeInvInit == BridgeInit => BridgeInv
<1> SUFFICES ASSUME BridgeInit PROVE BridgeInv
    OBVIOUS
<1>1. OwnersKnown
    BY StartupAssumption DEF BridgeInit, StartupInit, OwnersKnown
<1>2. calls = <<>> /\ called = <<>>
    BY DEF BridgeInit, RunnerInit
<1>3. CallsRouted
    BY <1>2 DEF CallsRouted
<1> QED
    BY <1>1, <1>3 DEF BridgeInv

\* Steps before the registration change no owner.
LEMMA OptionsOwners ==
    ASSUME OwnersKnown, ReadOptions \/ PluginFails \/ PluginsLoaded
                            \/ \E tools : LoadPlugin(tools)
    PROVE  OwnersKnown'
BY DEF OwnersKnown, ReadOptions, PluginFails, PluginsLoaded, LoadPlugin

\* A built-in tool is registered while no plugin is.
LEMMA BuiltinOwners ==
    ASSUME OwnersKnown, RegisterBuiltin
    PROVE  OwnersKnown'
BY StartupAssumption DEF OwnersKnown, RegisterBuiltin, Add

\* All tools so far are built-in ones.
LEMMA SnapshotOwners ==
    ASSUME OwnersKnown, BuiltinsRegistered
    PROVE  OwnersKnown'
BY StartupAssumption DEF OwnersKnown, BuiltinsRegistered, ToolNames

\* A tool of a plugin never takes the name of a built-in one.
LEMMA PluginOwners ==
    ASSUME OwnersKnown, RegisterPlugin
    PROVE  OwnersKnown'
BY StartupAssumption DEF OwnersKnown, RegisterPlugin, Add

\* The difference of the two sets of names is the tools of plugins.
LEMMA DifferenceOwners ==
    ASSUME OwnersKnown, PluginsRegistered
    PROVE  OwnersKnown'
BY StartupAssumption DEF OwnersKnown, PluginsRegistered, ToolNames

LEMMA StartupOwners ==
    ASSUME OwnersKnown, StartupNext
    PROVE  OwnersKnown'
BY OptionsOwners, BuiltinOwners, SnapshotOwners, PluginOwners, DifferenceOwners
DEF StartupNext

\* Start-up never goes on once it serves.
LEMMA StartupCalls ==
    ASSUME CallsRouted, StartupNext, UNCHANGED <<runnerVars, called>>
    PROVE  CallsRouted'
<1>1. calls = <<>> /\ calls' = calls /\ called' = called
    BY DEF CallsRouted, runnerVars, StartupNext, ReadOptions, LoadPlugin, PluginFails,
           PluginsLoaded, RegisterBuiltin, BuiltinsRegistered, RegisterPlugin,
           PluginsRegistered
<1> QED
    BY <1>1 DEF CallsRouted

\* A call to a tool of a plugin goes to the serial pool.
LEMMA CallRouted ==
    ASSUME RunnerTypeOK, BridgeInv, NEW i \in Ids, NEW name \in Names, Call(i, name)
    PROVE  CallsRouted'
<1> DEFINE new == [id |-> i, pool |-> PoolOf(name)]
<1>1. /\ stage = "serving" /\ stage' = stage /\ registry' = registry
      /\ calls' = Append(calls, new) /\ called' = Append(called, name)
    BY DEF Call, Submit, startupVars
<1>2. registry[name] = "plugin" => new.pool = "serialPool"
    BY <1>1 DEF BridgeInv, OwnersKnown, PoolOf
<1>3. /\ called \in Seq(Names) /\ Len(called) = Len(calls)
      /\ calls \in Seq([id : Ids, pool : Pools])
      /\ \A c \in 1 .. Len(calls) :
            registry[called[c]] = "plugin" => calls[c].pool = "serialPool"
    BY DEF BridgeInv, CallsRouted, Owner, RunnerTypeOK
<1>4. new \in [id : Ids, pool : Pools]
    BY DEF PoolOf, Pools
<1> HIDE DEF new
<1>5. /\ called' \in Seq(Names) /\ Len(called') = Len(called) + 1
      /\ \A c \in 1 .. Len(called) : called'[c] = called[c]
      /\ called'[Len(called) + 1] = name
    BY <1>1, <1>3
<1> DEFINE CallSet == [id : Ids, pool : Pools]
<1> HIDE DEF CallSet
<1>6. /\ Len(calls') = Len(calls) + 1
      /\ \A c \in 1 .. Len(calls) : calls'[c] = calls[c]
      /\ calls'[Len(calls) + 1] = new
    <2>1. calls \in Seq(CallSet) /\ new \in CallSet
        BY <1>3, <1>4 DEF CallSet
    <2> QED
        BY <1>1, <2>1
<1>7. ASSUME NEW c \in 1 .. Len(calls'), registry'[called'[c]] = "plugin"
      PROVE  calls'[c].pool = "serialPool"
    <2>1. Len(calls) \in Nat
        BY <1>3
    <2>2. CASE c \in 1 .. Len(calls)
        BY <1>1, <1>3, <1>5, <1>6, <1>7, <2>2
    <2>3. CASE c = Len(calls) + 1
        BY <1>1, <1>2, <1>3, <1>5, <1>6, <1>7, <2>3
    <2> QED
        BY <1>6, <2>1, <2>2, <2>3
<1> QED
    BY <1>1, <1>3, <1>5, <1>6, <1>7 DEF CallsRouted, Owner

LEMMA BridgeStep ==
    ASSUME RunnerTypeOK, BridgeInv, [BridgeNext]_bridgeVars
    PROVE  BridgeInv'
<1>1. CASE StartupNext /\ UNCHANGED <<runnerVars, called>>
    BY <1>1, StartupOwners, StartupCalls DEF BridgeInv
<1>2. ASSUME NEW i \in Ids, NEW name \in Names, Call(i, name)
      PROVE  BridgeInv'
    <2>1. OwnersKnown'
        BY <1>2 DEF Call, startupVars, BridgeInv, OwnersKnown
    <2> QED
        BY <1>2, <2>1, CallRouted DEF BridgeInv
<1>3. CASE Run \/ UNCHANGED bridgeVars
    <2>1. UNCHANGED <<calls, called, startupVars>>
        BY <1>3 DEF Run, Cancel, Finish, Worker, Start, Skip, Complete, bridgeVars,
                    runnerVars
    <2> QED
        BY <2>1 DEF BridgeInv, OwnersKnown, CallsRouted, Owner, startupVars
<1> QED
    BY <1>1, <1>2, <1>3 DEF BridgeNext

THEOREM BridgeInvariant == BridgeSpec => [](RunnerInv /\ BridgeInv)
<1>1. BridgeSpec => []RunnerInv
    BY BridgeUsesRunner, RunnerInvariant, PTL
<1>2. RunnerInv => RunnerTypeOK
    BY DEF RunnerInv
<1>3. RunnerTypeOK /\ BridgeInv /\ [BridgeNext]_bridgeVars => BridgeInv'
    BY BridgeStep
<1> QED
    BY <1>1, <1>2, <1>3, BridgeInvInit, PTL DEF BridgeSpec

\* One call() of a plugin's tool runs at a time, whatever plugins are loaded, whatever
\* they register, and however many threads and calls there are.
THEOREM PluginCallsAreAlone == BridgeSpec => []PluginCallsAlone
<1>1. ASSUME RunnerInv, BridgeInv PROVE PluginCallsAlone
    <2> SUFFICES ASSUME NEW c \in running, NEW d \in running,
                        Owner(c) = "plugin", Owner(d) = "plugin"
                 PROVE  c = d
        BY DEF PluginCallsAlone
    <2>1. running \subseteq 1 .. Len(calls)
        BY <1>1 DEF RunnerInv, RunnerTypeOK, Submitted
    <2>2. calls[c].pool = "serialPool" /\ calls[d].pool = "serialPool"
        BY <1>1, <2>1 DEF BridgeInv, CallsRouted
    <2> QED
        BY <1>1, <2>2 DEF RunnerInv, SerialOrder, Serial
<1> QED
    BY <1>1, BridgeInvariant, PTL
=============================================================================
