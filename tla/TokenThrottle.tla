----------------------------- MODULE TokenThrottle -----------------------------
(* How validate_token (auth/oidc.py) finds the key of a token: the record of   *)
(* resolved key ids, the cached key set, the memo of unknown key ids, the      *)
(* refresh budget, and the fetches from the identity provider they guard.      *)
(* Requests run on worker threads; only the memo, the budget and the record    *)
(* are under the lock.  Ages stand for time.monotonic() differences, in ticks. *)
EXTENDS Integers, Sequences, FiniteSets

CONSTANTS
  Threads,        \* the worker threads
  Kids,           \* key ids a token can name
  NoKid,          \* a token without one; never remembered as resolved
  KeySets,        \* the key sets the provider serves, one after the other
  Window,         \* _UNKNOWN_KID_WINDOW and _REFRESH_WINDOW (60 s)
  Budget,         \* _REFRESH_BUDGET (10)
  MaxTracked,     \* _MAX_TRACKED_KIDS (512)
  MaxResolved     \* _MAX_RESOLVED_KIDS (64)

ASSUME TokenThrottleAssumption ==
  /\ NoKid \in Kids /\ KeySets \in Seq(SUBSET (Kids \ {NoKid})) /\ KeySets # <<>>
  /\ Window \in Nat \ {0} /\ Budget \in Nat \ {0}
  /\ MaxTracked \in Nat \ {0} /\ MaxResolved \in Nat \ {0}

VARIABLES
  rotation,       \* which of KeySets the provider serves
  up,             \* whether the provider answers
  keySet,         \* PyJWT's cached key set: {set}, or {} for none
  resolved,       \* _resolved_kids
  memo,           \* _unknown_kids: key id -> age, or Absent
  refreshes,      \* _refresh_times: passes of the gate with their ages
  passes,         \* (history) the passes of the gate younger than Window
  thread,         \* the validation each thread runs: [pc, kid, got]
  held            \* (history) threads whose key has been held since they began

throttleVars == <<rotation, up, keySet, resolved, memo, refreshes, passes, thread, held>>

Absent == Window + 2
Older(age) == IF age > Window THEN age ELSE age + 1
Capped(age) == IF age < Window THEN age + 1 ELSE age
Aged(record) == [record EXCEPT !.age = Capped(@)]
\* A pass has a number that tells it from the others not yet forgotten.
Numbers == 0..2 * Budget
Passes == [n : Numbers, age : 0..Window]
Published == KeySets[rotation]
Idle == [pc |-> "idle", kid |-> NoKid, got |-> {}]

ThrottleInit ==
  /\ rotation = 1 /\ up = TRUE /\ keySet = {}
  /\ resolved = {} /\ memo = [k \in Kids |-> Absent] /\ refreshes = {} /\ passes = {}
  /\ thread = [t \in Threads |-> Idle] /\ held = {}

At(t, pc) == thread[t].pc = pc
Goto(t, pc) == thread' = [thread EXCEPT ![t].pc = pc]
InCache(k) == \E set \in keySet : k \in set
Holds(k) == k \in resolved \/ InCache(k)

Begin(t, k) ==
  /\ At(t, "idle") /\ thread' = [thread EXCEPT ![t] = [Idle EXCEPT !.pc = "known", !.kid = k]]
  /\ held' = IF Holds(k) THEN held \union {t} ELSE held \ {t}
  /\ UNCHANGED <<rotation, up, keySet, resolved, memo, refreshes, passes>>

\* Defect: only the cached set is asked, which has a lifespan.
KnownByCacheOnly(t) ==
  LET k == thread[t].kid IN
  /\ At(t, "known")
  /\ Goto(t, CASE k # NoKid /\ InCache(k)  -> "resolve"
               [] k # NoKid /\ keySet = {} -> "ask known"
               [] OTHER                    -> "gate")
  /\ UNCHANGED <<rotation, up, keySet, resolved, memo, refreshes, passes, held>>

\* Defect: no fetch of its own, so a start with no set is at the throttle's mercy.
KnownWithoutFetch(t) ==
  LET k == thread[t].kid IN
  /\ At(t, "known") /\ Goto(t, IF k # NoKid /\ Holds(k) THEN "resolve" ELSE "gate")
  /\ UNCHANGED <<rotation, up, keySet, resolved, memo, refreshes, passes, held>>

\* _kid_is_known: the record, then the cached set without a request, and when no set
\* is cached a fetch of its own, which no budget guards.
KidIsKnown(t) ==
  LET k == thread[t].kid IN
  /\ At(t, "known")
  /\ Goto(t, CASE k # NoKid /\ Holds(k)   -> "resolve"
               [] k = NoKid               -> "gate"
               [] OTHER                   -> IF keySet = {} THEN "ask known" ELSE "gate")
  /\ UNCHANGED <<rotation, up, keySet, resolved, memo, refreshes, passes, held>>

\* A fetch: what the provider answers, and later its arrival.  PyJWT puts whatever
\* arrives in its cache, and an error as no set.
Ask(t) ==
  /\ thread[t].pc \in {"ask known", "ask resolve", "ask refresh"}
  /\ thread' = [thread EXCEPT ![t].got = IF up THEN {Published} ELSE {},
                              ![t].pc = CASE At(t, "ask known") -> "answer known"
                                          [] At(t, "ask resolve") -> "answer resolve"
                                          [] OTHER -> "answer refresh"]
  /\ UNCHANGED <<rotation, up, keySet, resolved, memo, refreshes, passes, held>>

\* Defect: an answer without the key counts as having it.
FoundAlways(t) == thread[t].got # {}
Found(t) == \E set \in thread[t].got : thread[t].kid \in set

Answer(t) ==
  LET got == thread[t].got
      found == Found(t)
  IN
  /\ thread[t].pc \in {"answer known", "answer resolve", "answer refresh"}
  /\ keySet' = got
  /\ held' = held \ {u \in held : thread[u].kid \notin resolved \union UNION got}
  /\ thread' = [thread EXCEPT ![t].got = {},
       ![t].pc = CASE At(t, "answer known") /\ ~found            -> "gate"
                   [] At(t, "answer known") /\ found             -> "resolve"
                   [] ~At(t, "answer known") /\ found            -> "remember"
                   [] At(t, "answer resolve") /\ got # {} /\ ~found -> "ask refresh"
                   [] OTHER                                       -> "failed"]
  /\ UNCHANGED <<rotation, up, resolved, memo, refreshes, passes>>

\* _refuse_if_recently_missed, under the lock: drop what is too old, then the memo
\* of this key id, then the budget over all of them.
Purged == [k \in Kids |-> IF memo[k] > Window THEN Absent ELSE memo[k]]
Tracked == {k \in Kids : Purged[k] # Absent}
\* Defect: the memo is never emptied.
NeverForgotten == Purged
Forgotten == IF Cardinality(Tracked) >= MaxTracked THEN [k \in Kids |-> Absent] ELSE Purged
\* Defect: off by one window.
RecentTooShort == {record \in refreshes : record.age < Window - 1}
Recent == {record \in refreshes : record.age < Window}
Taken == {record.n : record \in Recent \union passes}
NewPass == [n |-> CHOOSE n \in Numbers : n \notin Taken, age |-> 0]

RefuseIfRecentlyMissed(t) ==
  LET k == thread[t].kid IN
  /\ At(t, "gate")
  /\ \/ /\ Purged[k] # Absent
        /\ Goto(t, "throttled") /\ memo' = Purged /\ UNCHANGED <<refreshes, passes>>
     \/ /\ Purged[k] = Absent /\ Cardinality(Recent) >= Budget
        /\ Goto(t, "throttled") /\ memo' = Purged /\ refreshes' = Recent
        /\ UNCHANGED passes
     \/ /\ Purged[k] = Absent /\ Cardinality(Recent) < Budget
        /\ Goto(t, "resolve") /\ memo' = [Forgotten EXCEPT ![k] = 0]
        /\ refreshes' = Recent \union {NewPass} /\ passes' = passes \union {NewPass}
  /\ UNCHANGED <<rotation, up, keySet, resolved, held>>

\* PyJWKClient.get_signing_key: the cached set, or a fetch; a key id that is in
\* neither costs a second fetch.
GetSigningKey(t) ==
  /\ At(t, "resolve")
  /\ Goto(t, CASE keySet = {}            -> "ask resolve"
               [] InCache(thread[t].kid) -> "remember"
               [] OTHER                  -> "ask refresh")
  /\ UNCHANGED <<rotation, up, keySet, resolved, memo, refreshes, passes, held>>

\* _forget_unknown_kid: two sections under the lock, one after the other.
RememberResolvedKid(t) ==
  LET kept == IF Cardinality(resolved) >= MaxResolved THEN {} ELSE resolved IN
  /\ At(t, "remember") /\ Goto(t, "forget")
  /\ resolved' = kept \union {thread[t].kid}
  /\ held' = held \ {u \in held : thread[u].kid \notin resolved' \union UNION keySet}
  /\ UNCHANGED <<rotation, up, keySet, memo, refreshes, passes>>

ForgetUnknownKid(t) ==
  /\ At(t, "forget") /\ Goto(t, "accepted")
  /\ memo' = [memo EXCEPT ![thread[t].kid] = Absent]
  /\ UNCHANGED <<rotation, up, keySet, resolved, refreshes, passes, held>>

End(t) ==
  /\ thread[t].pc \in {"accepted", "throttled", "failed"}
  /\ thread' = [thread EXCEPT ![t] = Idle] /\ held' = held \ {t}
  /\ UNCHANGED <<rotation, up, keySet, resolved, memo, refreshes, passes>>

Step(t) ==
  \/ KidIsKnown(t) \/ Ask(t) \/ Answer(t) \/ RefuseIfRecentlyMissed(t)
  \/ GetSigningKey(t) \/ RememberResolvedKid(t) \/ ForgetUnknownKid(t) \/ End(t)

\* Time passes; the key set's lifespan (one hour) ends; the provider rotates its
\* keys, goes down and comes back.
Tick ==
  /\ memo' = [k \in Kids |-> IF memo[k] = Absent THEN Absent ELSE Older(memo[k])]
  /\ refreshes' = {Aged(record) : record \in refreshes}
  /\ passes' = {Aged(record) : record \in {young \in passes : young.age + 1 < Window}}
  /\ UNCHANGED <<rotation, up, keySet, resolved, thread, held>>

Lapse ==
  /\ keySet # {} /\ keySet' = {}
  /\ held' = {t \in held : thread[t].kid \in resolved}
  /\ UNCHANGED <<rotation, up, resolved, memo, refreshes, passes, thread>>

Rotate ==
  /\ rotation < Len(KeySets) /\ rotation' = rotation + 1
  /\ UNCHANGED <<up, keySet, resolved, memo, refreshes, passes, thread, held>>

Switch ==
  /\ up' = ~up
  /\ UNCHANGED <<rotation, keySet, resolved, memo, refreshes, passes, thread, held>>

ThrottleNext ==
  \/ \E t \in Threads : Step(t) \/ \E k \in Kids : Begin(t, k)
  \/ Tick \/ Lapse \/ Rotate \/ Switch

NewKey == CHOOSE k \in KeySets[Len(KeySets)] : TRUE

\* Every validation runs to its end on its thread, time passes, and somebody keeps
\* sending tokens of the new key whatever else is sent.
ThrottleSpec ==
  /\ ThrottleInit /\ [][ThrottleNext]_throttleVars /\ WF_throttleVars(Tick)
  /\ \A t \in Threads : WF_throttleVars(Step(t))
  /\ \E t \in Threads : SF_throttleVars(Begin(t, NewKey))
--------------------------------------------------------------------------------
ThrottleTypeOK ==
  /\ memo \in [Kids -> 0..Absent] /\ resolved \subseteq Kids \ {NoKid}
  /\ refreshes \subseteq Passes /\ \A r, s \in refreshes : r.n = s.n => r = s
  /\ Cardinality(refreshes) <= Budget /\ Cardinality(resolved) <= MaxResolved
  /\ Cardinality({k \in Kids : memo[k] # Absent}) <= MaxTracked
  /\ held \subseteq Threads /\ keySet \subseteq {KeySets[i] : i \in DOMAIN KeySets}

\* However many threads send however many key ids, no window of time sees more
\* passes of the gate than the budget.
BudgetHolds == Cardinality(passes) <= Budget

\* A token whose key is held all along, in the record or in the cached set, is never
\* refused by the throttle, however much abuse is in flight.
HeldKeysNeverThrottled == \A t \in held : ~At(t, "throttled")

\* A key id is recorded as resolved only when a key set the provider served had it.
OnlyPublishedResolved == resolved \subseteq UNION {KeySets[i] : i \in 1..rotation}

\* The provider stays up and serves the new key: its tokens get through again and
\* again, even when unknown key ids keep taking the whole budget.
RotationRecovers ==
  <>[](up /\ NewKey \in Published) =>
    []<>(\E t \in Threads : At(t, "accepted") /\ thread[t].kid = NewKey)

\* What holds of the throttle's shared records whatever the threads send: their
\* types and bounds, the budget, and that no key id is recorded unseen.
ThrottleInv == ThrottleTypeOK /\ BudgetHolds /\ OnlyPublishedResolved
================================================================================
