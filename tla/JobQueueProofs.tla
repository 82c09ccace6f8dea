---------------------------- MODULE JobQueueProofs ----------------------------
(***************************************************************************)
(* What JobQueue guarantees for any number of jobs, processes and threads.   *)
(***************************************************************************)
EXTENDS JobQueue, FiniteSetTheorems, TLAPS

USE QueueAssumption DEF NoToken

\* The single-statement transitions keep a row well formed; a claim, because it looks at
\* the attempts first.
LEMMA RowTransitions ==
    ASSUME NEW max \in Nat, NEW r \in Row(max), NEW token \in Nat,
           NEW due \in BOOLEAN, NEW state \in JobState
    PROVE  /\ Enqueued(r, due) \in Row(max)
           /\ Claimable(r, max) => Claimed(r, token) \in Row(max)
           /\ Settled(r, state) \in Row(max)
           /\ Retried(r) \in Row(max)
           /\ Released(r) \in Row(max)
           /\ LeaseRanOut(r) \in Row(max)
           /\ BackoffElapsed(r) \in Row(max)
  <1>1. Claimable(r, max) => r.attempts + 1 \in 0..max
    BY DEF Row, Claimable
  <1>. QED
    BY <1>1 DEF Row, JobState, NoToken, Enqueued, Claimed, Settled, Retried, Released,
                LeaseRanOut, BackoffElapsed

LEMMA NoLeaseType == NoLease \in [job : Job, token : Nat]
  BY DEF NoLease

LEMMA TypeInit == Init => TypeOK
  <1>. SUFFICES ASSUME Init PROVE TypeOK
    OBVIOUS
  <1>1. AbsentRow \in Row(MaxAttempts)
    BY DEF AbsentRow, Row, JobState
  <1>. QED
    BY <1>1, NoLeaseType DEF Init, TypeOK, Label

LEMMA TypeStep == TypeOK /\ [Next]_vars => TypeOK'
  <1>. SUFFICES ASSUME TypeOK, [Next]_vars PROVE TypeOK'
    OBVIOUS
  <1>. USE NoLeaseType DEF TypeOK, Label, db, process, Goto
  <1>1. ASSUME NEW j \in Job, Enqueue(j) PROVE TypeOK'
    <2>1. PICK due \in BOOLEAN : row' = [row EXCEPT ![j] = Enqueued(@, due)]
      BY <1>1 DEF Enqueue
    <2>2. Enqueued(row[j], due) \in Row(MaxAttempts)
      BY RowTransitions DEF JobState
    <2>. QED BY <1>1, <2>1, <2>2 DEF Enqueue
  <1>2. ASSUME NEW j \in Job, LeaseExpires(j) PROVE TypeOK'
    <2>1. LeaseRanOut(row[j]) \in Row(MaxAttempts)
      BY RowTransitions DEF JobState
    <2>. QED BY <1>2, <2>1 DEF LeaseExpires
  <1>3. ASSUME NEW j \in Job, BackoffElapses(j) PROVE TypeOK'
    <2>1. BackoffElapsed(row[j]) \in Row(MaxAttempts)
      BY RowTransitions DEF JobState
    <2>. QED BY <1>3, <2>1 DEF BackoffElapses
  <1>4. ASSUME NEW t \in Thread, LoopTop(t) PROVE TypeOK'
    BY <1>4 DEF LoopTop
  <1>5. ASSUME NEW t \in Thread, BeginClaim(t) PROVE TypeOK'
    BY <1>5 DEF BeginClaim
  <1>6. ASSUME NEW t \in Thread, NEW j \in Job, GrantClaim(t, j) PROVE TypeOK'
    <2>1. minted' \in Nat
      BY <1>6 DEF GrantClaim
    <2>2. Claimed(row[j], minted') \in Row(MaxAttempts)
      BY <1>6, <2>1, RowTransitions DEF GrantClaim, JobState
    <2>3. row' \in [Job -> Row(MaxAttempts)]
      BY <1>6, <2>2 DEF GrantClaim
    <2>4. row'[j].token \in Nat
      BY <2>3 DEF Row
    <2>5. lease' \in [Thread -> [job : Job, token : Nat]]
      BY <1>6, <2>4 DEF GrantClaim
    <2>6. granted' \in [Proc -> SUBSET Nat]
      BY <1>6, <2>4 DEF GrantClaim
    <2>. QED BY <1>6, <2>1, <2>3, <2>5, <2>6 DEF GrantClaim
  <1>7. ASSUME NEW t \in Thread, ClaimNothing(t) PROVE TypeOK'
    BY <1>7 DEF ClaimNothing
  <1>8. ASSUME NEW t \in Thread, NEW j \in Job, ReapOne(t, j) PROVE TypeOK'
    <2>1. Settled(row[j], "dead") \in Row(MaxAttempts)
      BY RowTransitions DEF JobState
    <2>. QED BY <1>8, <2>1 DEF ReapOne
  <1>9. ASSUME NEW t \in Thread, ReapNothing(t) PROVE TypeOK'
    BY <1>9 DEF ReapNothing
  <1>10. ASSUME NEW t \in Thread, RecordToken(t) PROVE TypeOK'
    BY <1>10 DEF RecordToken
  <1>11. ASSUME NEW t \in Thread, SettleHeld(t) PROVE TypeOK'
    <2>. DEFINE j == lease[t].job
    <2>1. j \in Job
      OBVIOUS
    <2>2. /\ Settled(row[j], "done") \in Row(MaxAttempts)
          /\ Settled(row[j], "dead") \in Row(MaxAttempts)
          /\ Retried(row[j]) \in Row(MaxAttempts)
      BY <2>1, RowTransitions DEF JobState
    <2>3. row' \in [Job -> Row(MaxAttempts)]
      BY <1>11, <2>1, <2>2 DEF SettleHeld
    <2>. QED BY <1>11, <2>3 DEF SettleHeld
  <1>12. ASSUME NEW t \in Thread, SettleRefusedByRun(t) PROVE TypeOK'
    BY <1>12 DEF SettleRefusedByRun
  <1>13. ASSUME NEW t \in Thread, SettleLost(t) PROVE TypeOK'
    BY <1>13 DEF SettleLost
  <1>14. ASSUME NEW t \in Thread, SettleRaises(t) PROVE TypeOK'
    BY <1>14 DEF SettleRaises
  <1>15. ASSUME NEW t \in Thread, ForgetToken(t) PROVE TypeOK'
    BY <1>15 DEF ForgetToken
  <1>16. ASSUME NEW p \in Proc, StopBegin(p) PROVE TypeOK'
    BY <1>16 DEF StopBegin
  <1>17. ASSUME NEW p \in Proc, HeldTokens(p) PROVE TypeOK'
    BY <1>17 DEF HeldTokens
  <1>18. ASSUME NEW p \in Proc, ReleaseLeases(p) PROVE TypeOK'
    <2>1. \A j \in Job : Released(row[j]) \in Row(MaxAttempts)
      BY RowTransitions DEF JobState
    <2>. QED BY <1>18, <2>1 DEF ReleaseLeases
  <1>19. ASSUME NEW p \in Proc, Boot(p) PROVE TypeOK'
    BY <1>19 DEF Boot, Reboot
  <1>20. ASSUME NEW p \in Proc, Crash(p) PROVE TypeOK'
    BY <1>20 DEF Crash, Reboot
  <1>21. CASE UNCHANGED vars
    BY <1>21 DEF vars
  <1>. QED
    BY <1>1, <1>2, <1>3, <1>4, <1>5, <1>6, <1>7, <1>8, <1>9, <1>10, <1>11, <1>12,
       <1>13, <1>14, <1>15, <1>16, <1>17, <1>18, <1>19, <1>20, <1>21
    DEF Next, ThreadStep, ProcStep

\* Rows never count more attempts than max_attempts and every column stays in
\* its domain, whatever the claims, reclaims, settlements and shutdowns do.
THEOREM TypeCorrect == Spec => []TypeOK
  BY TypeInit, TypeStep, PTL DEF Spec

-------------------------------------------------------------------------------
(* Tokens: each is minted once, for one row and one thread. *)

Leased(j) == row[j].state = "leased"

RowTokens ==
    /\ \A j \in Job : Leased(j) => row[j].token \in 1..minted
    /\ \A i, j \in Job : Leased(i) /\ Leased(j) /\ i # j => row[i].token # row[j].token

LeaseTokens ==
    /\ \A t \in Thread : lease[t].token \in 0..minted
    /\ \A t, u \in Thread :
         t # u /\ lease[t].token # NoToken => lease[t].token # lease[u].token
    /\ \A t \in Thread, j \in Job :
         Leased(j) /\ row[j].token = lease[t].token => lease[t].job = j

GrantedTokens == \A p \in Proc : granted[p] \subseteq 1..minted

TokenInv == RowTokens /\ LeaseTokens /\ GrantedTokens

(* A graceful stop. *)

Serviceable == Job \ PipelineJob

\* A lease the table gave to p is recorded, or on its way to the record.
Accounted ==
    \A p \in Proc, j \in Serviceable :
        Leased(j) /\ row[j].token \in granted[p]
        => \/ row[j].token \in held[p]
           \/ \E t \in ThreadsOf(p) : pc[t] = "granted" /\ lease[t].token = row[j].token

\* A token about to be forgotten is on no row any more.
ForgetsOnlySettled ==
    \A t \in Thread, j \in Serviceable :
        pc[t] = "forget" /\ Leased(j) => row[j].token # lease[t].token

\* After a clean snapshot no thread of p can obtain or record a lease.
Quiet(p) == \A t \in ThreadsOf(p) : pc[t] \notin {"entering", "claiming", "granted"}

CleanStop ==
    \A p \in Proc :
        clean[p] => /\ phase[p] \in {"releasing", "stopped"}
                    /\ Quiet(p)
                    /\ phase[p] = "releasing" => held[p] \subseteq snapshot[p]

HandedBack ==
    \A p \in Proc, j \in Serviceable :
        phase[p] = "stopped" /\ clean[p] /\ Leased(j) => row[j].token \notin granted[p]

StopInv == Accounted /\ ForgetsOnlySettled /\ CleanStop /\ HandedBack

\* What every step but a claim does to leases: rows only lose them, a thread
\* keeps what it carries or drops it, and no token is minted or granted.
LeasesShrink ==
    /\ \A j \in Job : row'[j].state = "leased"
                      => Leased(j) /\ row'[j].token = row[j].token
    /\ \A t \in Thread : lease'[t] = lease[t] \/ lease'[t] = NoLease
    /\ \A p \in Proc : granted'[p] = granted[p] \/ granted'[p] = {}
    /\ minted' = minted

\* A settlement, a retry and a release all end the lease.
LEMMA EndsLease ==
    ASSUME NEW max \in Nat, NEW r \in Row(max), NEW state \in JobState, state # "leased"
    PROVE  /\ Settled(r, state).state # "leased"
           /\ Retried(r).state # "leased"
           /\ Released(r).state # "leased"
  <1>. USE DEF Row, JobState
  <1>1. \A s \in JobState : Settled(r, s) \in Row(max) /\ Settled(r, s).state = s
    BY DEF Settled
  <1>. QED BY <1>1 DEF Retried, Released

LEMMA OnlyClaimsLease ==
    TypeOK /\ [Next]_vars
    => LeasesShrink \/ \E t \in Thread, j \in Job : GrantClaim(t, j)
  <1>. SUFFICES ASSUME TypeOK, [Next]_vars,
                       ~ \E t \in Thread, j \in Job : GrantClaim(t, j)
                PROVE  LeasesShrink
    OBVIOUS
  <1>. USE DEF TypeOK, LeasesShrink, Leased, db, process
  <1>1. ASSUME NEW j \in Job, Enqueue(j) PROVE LeasesShrink
    <2>1. PICK due \in BOOLEAN : row' = [row EXCEPT ![j] = Enqueued(@, due)]
      BY <1>1 DEF Enqueue
    <2>2. Enqueued(row[j], due).state = "pending"
      BY <1>1 DEF Enqueue, Enqueued, Row
    <2>. QED BY <1>1, <2>1, <2>2 DEF Enqueue
  <1>2. ASSUME NEW j \in Job, LeaseExpires(j) PROVE LeasesShrink
    <2>1. /\ LeaseRanOut(row[j]).state = row[j].state
          /\ LeaseRanOut(row[j]).token = row[j].token
      BY DEF LeaseRanOut, Row
    <2>. QED BY <1>2, <2>1 DEF LeaseExpires
  <1>3. ASSUME NEW j \in Job, BackoffElapses(j) PROVE LeasesShrink
    <2>1. BackoffElapsed(row[j]).state = row[j].state
      BY DEF BackoffElapsed, Row
    <2>. QED BY <1>3, <2>1 DEF BackoffElapses
  <1>4. ASSUME NEW t \in Thread, LoopTop(t) \/ BeginClaim(t) \/ ClaimNothing(t)
               \/ ReapNothing(t) \/ RecordToken(t) \/ SettleRefusedByRun(t)
               \/ SettleLost(t) \/ SettleRaises(t) \/ ForgetToken(t)
        PROVE LeasesShrink
    BY <1>4 DEF LoopTop, BeginClaim, ClaimNothing, ReapNothing, RecordToken,
       SettleRefusedByRun, SettleLost, SettleRaises, ForgetToken
  <1>5. ASSUME NEW t \in Thread, NEW j \in Job, ReapOne(t, j) PROVE LeasesShrink
    <2>1. Settled(row[j], "dead").state # "leased"
      BY EndsLease DEF JobState
    <2>. QED BY <1>5, <2>1 DEF ReapOne
  <1>6. ASSUME NEW t \in Thread, SettleHeld(t) PROVE LeasesShrink
    <2>1. lease[t].job \in Job
      OBVIOUS
    <2>2. /\ Settled(row[lease[t].job], "done").state # "leased"
          /\ Settled(row[lease[t].job], "dead").state # "leased"
          /\ Retried(row[lease[t].job]).state # "leased"
      BY <2>1, EndsLease DEF JobState
    <2>. QED BY <1>6, <2>1, <2>2 DEF SettleHeld
  <1>7. ASSUME NEW p \in Proc, StopBegin(p) \/ HeldTokens(p) \/ Boot(p) \/ Crash(p)
        PROVE LeasesShrink
    BY <1>7 DEF StopBegin, HeldTokens, Boot, Crash, Reboot
  <1>8. ASSUME NEW p \in Proc, ReleaseLeases(p) PROVE LeasesShrink
    <2>1. \A j \in Job : Released(row[j]).state # "leased"
      BY EndsLease DEF JobState
    <2>. QED BY <1>8, <2>1 DEF ReleaseLeases
  <1>9. CASE UNCHANGED vars
    BY <1>9 DEF vars
  <1>. QED
    BY <1>1, <1>2, <1>3, <1>4, <1>5, <1>6, <1>7, <1>8, <1>9
    DEF Next, ThreadStep, ProcStep

\* What a claim does: the row and the thread get one and the same fresh token.
LEMMA ClaimGrants ==
    ASSUME TypeOK, NEW t \in Thread, NEW j \in Job, GrantClaim(t, j)
    PROVE  /\ minted' = minted + 1
           /\ row'[j].state = "leased" /\ row'[j].token = minted + 1
           /\ \A i \in Job : i # j => row'[i] = row[i]
           /\ lease'[t] = [job |-> j, token |-> minted + 1]
           /\ \A u \in Thread : u # t => lease'[u] = lease[u]
           /\ granted'[Home[t]] = granted[Home[t]] \cup {minted + 1}
           /\ \A p \in Proc : p # Home[t] => granted'[p] = granted[p]
  <1>. USE DEF TypeOK
  <1>1. /\ Claimed(row[j], minted + 1).state = "leased"
        /\ Claimed(row[j], minted + 1).token = minted + 1
    BY DEF Claimed, Row
  <1>2. row' = [row EXCEPT ![j] = Claimed(@, minted + 1)] /\ minted' = minted + 1
    BY DEF GrantClaim
  <1>3. row'[j].state = "leased" /\ row'[j].token = minted + 1
    BY <1>1, <1>2
  <1>. QED
    BY <1>2, <1>3 DEF GrantClaim

LEMMA TokenInit == Init => TokenInv
  BY DEF Init, TokenInv, RowTokens, LeaseTokens, GrantedTokens, Leased, AbsentRow, NoLease

LEMMA TokenStep == TypeOK /\ TokenInv /\ [Next]_vars => TokenInv'
  <1>. SUFFICES ASSUME TypeOK, TokenInv, [Next]_vars PROVE TokenInv'
    OBVIOUS
  <1>. USE DEF TokenInv, RowTokens, LeaseTokens, GrantedTokens, Leased
  <1>1. CASE LeasesShrink
    <2>1. NoLease.token = NoToken
      BY DEF NoLease
    <2>2. RowTokens'
      BY <1>1 DEF LeasesShrink
    <2>3. LeaseTokens'
      <3>1. \A t \in Thread : lease'[t] = lease[t] \/ lease'[t].token = NoToken
        BY <1>1, <2>1 DEF LeasesShrink
      <3>2. \A t \in Thread : lease'[t].token \in 0..minted'
        BY <1>1, <3>1 DEF LeasesShrink, NoToken, TypeOK
      <3>3. \A t, u \in Thread :
              t # u /\ lease'[t].token # NoToken => lease'[t].token # lease'[u].token
        BY <3>1
      <3>4. \A t \in Thread, j \in Job :
              row'[j].state = "leased" /\ row'[j].token = lease'[t].token => lease'[t].job = j
        BY <1>1, <3>1 DEF LeasesShrink, NoToken
      <3>. QED BY <3>2, <3>3, <3>4
    <2>4. GrantedTokens'
      BY <1>1 DEF LeasesShrink
    <2>. QED BY <2>2, <2>3, <2>4
  <1>2. ASSUME NEW t \in Thread, NEW j \in Job, GrantClaim(t, j) PROVE TokenInv'
    <2>. DEFINE new == minted + 1
    <2>1. /\ minted' = new
          /\ row'[j].state = "leased" /\ row'[j].token = new
          /\ \A i \in Job : i # j => row'[i] = row[i]
          /\ lease'[t] = [job |-> j, token |-> new]
          /\ \A u \in Thread : u # t => lease'[u] = lease[u]
          /\ granted'[Home[t]] = granted[Home[t]] \cup {new}
          /\ \A p \in Proc : p # Home[t] => granted'[p] = granted[p]
      BY <1>2, ClaimGrants
    <2>2. minted \in Nat /\ new \in 1..new /\ new \notin 0..minted
          /\ 1..minted \subseteq 1..new /\ 0..minted \subseteq 0..new
      BY DEF TypeOK
    <2>. HIDE DEF new
    <2>3. RowTokens'
      BY <2>1, <2>2
    <2>4. LeaseTokens'
      <3>1. \A u \in Thread : lease'[u].token \in 0..minted'
        BY <2>1, <2>2
      <3>2. \A u, v \in Thread : u # v /\ lease'[u].token # NoToken
                                 => lease'[u].token # lease'[v].token
        BY <2>1, <2>2
      <3>3. \A u \in Thread, i \in Job :
               row'[i].state = "leased" /\ row'[i].token = lease'[u].token
               => lease'[u].job = i
        BY <2>1, <2>2
      <3>. QED BY <3>1, <3>2, <3>3
    <2>5. GrantedTokens'
      BY <2>1, <2>2
    <2>. QED BY <2>3, <2>4, <2>5
  <1>. QED BY <1>1, <1>2, OnlyClaimsLease

\* However many zombies run a job, the fence of its row lets one thread pass.
THEOREM OneClaimant == Spec => []SoleClaimant
  <1>1. TypeOK /\ TokenInv => SoleClaimant
    BY DEF TokenInv, LeaseTokens, SoleClaimant, Holds, TypeOK
  <1>2. Init => TypeOK /\ TokenInv
    BY TypeInit, TokenInit
  <1>3. TypeOK /\ TokenInv /\ [Next]_vars => TypeOK' /\ TokenInv'
    BY TypeStep, TokenStep
  <1>. QED BY <1>1, <1>2, <1>3, PTL DEF Spec

-------------------------------------------------------------------------------
(* A graceful stop *)

LEMMA StopInit == Init => StopInv
  BY DEF Init, StopInv, Accounted, ForgetsOnlySettled, CleanStop, HandedBack, Leased,
     AbsentRow

\* A claim disturbs nothing: its token is fresh, its thread is on the record of
\* claims in flight, and its process has not taken a clean snapshot.
LEMMA ClaimKeepsStop ==
    ASSUME TypeOK, TokenInv, StopInv, NEW t \in Thread, NEW j \in Job, GrantClaim(t, j)
    PROVE  StopInv'
  <1>. DEFINE new == minted + 1
  <1>. USE DEF TypeOK, StopInv, Leased
  <1>1. /\ row'[j].state = "leased" /\ row'[j].token = new
        /\ \A i \in Job : i # j => row'[i] = row[i]
        /\ lease'[t] = [job |-> j, token |-> new]
        /\ \A u \in Thread : u # t => lease'[u] = lease[u]
        /\ granted'[Home[t]] = granted[Home[t]] \cup {new}
        /\ \A p \in Proc : p # Home[t] => granted'[p] = granted[p]
    BY ClaimGrants
  <1>2. /\ pc[t] = "claiming" /\ pc'[t] = "granted"
        /\ \A u \in Thread : u # t => pc'[u] = pc[u]
        /\ UNCHANGED <<held, phase, snapshot, clean>>
    BY DEF GrantClaim, Goto, process
  <1>3. /\ \A p \in Proc : new \notin granted[p]
        /\ \A u \in Thread : new # lease[u].token
        /\ \A i \in Job : Leased(i) => row[i].token # new
    BY DEF TokenInv, RowTokens, LeaseTokens, GrantedTokens
  <1>4. t \in ThreadsOf(Home[t]) /\ Home[t] \in Proc
    BY DEF ThreadsOf
  <1>. HIDE DEF new
  <1>5. Accounted'
    <2>. SUFFICES ASSUME NEW p \in Proc, NEW i \in Serviceable,
                         row'[i].state = "leased", row'[i].token \in granted'[p]
                  PROVE  \/ row'[i].token \in held'[p]
                         \/ \E u \in ThreadsOf(p) : pc'[u] = "granted"
                                                  /\ lease'[u].token = row'[i].token
      BY DEF Accounted
    <2>. i \in Job
      BY DEF Serviceable
    <2>1. CASE i = j
      <3>1. p = Home[t]
        BY <1>1, <1>3, <2>1
      <3>. QED BY <1>1, <1>2, <1>4, <2>1, <3>1
    <2>2. CASE i # j
      <3>1. Leased(i) /\ row[i].token \in granted[p]
        BY <1>1, <1>3, <2>2
      <3>2. CASE row[i].token \in held[p]
        BY <1>1, <1>2, <2>2, <3>2
      <3>3. ASSUME NEW u \in ThreadsOf(p), pc[u] = "granted", lease[u].token = row[i].token
            PROVE  pc'[u] = "granted" /\ lease'[u].token = row'[i].token
        BY <1>1, <1>2, <2>2, <3>3 DEF ThreadsOf
      <3>. QED BY <3>1, <3>2, <3>3 DEF Accounted
    <2>. QED BY <2>1, <2>2
  <1>6. ForgetsOnlySettled'
    BY <1>1, <1>2, <1>3 DEF ForgetsOnlySettled, Serviceable
  <1>7. CleanStop'
    BY <1>2, <1>4 DEF CleanStop, Quiet, ThreadsOf
  <1>8. HandedBack'
    BY <1>1, <1>2, <1>3, <1>4 DEF HandedBack, CleanStop, Quiet, Serviceable
  <1>. QED BY <1>5, <1>6, <1>7, <1>8

LEMMA StopStep == TypeOK /\ TokenInv /\ StopInv /\ [Next]_vars => StopInv'
  <1>. SUFFICES ASSUME TypeOK, TokenInv, StopInv, [Next]_vars, LeasesShrink
                PROVE  StopInv'
    BY OnlyClaimsLease, ClaimKeepsStop
  <1>. USE DEF TypeOK, StopInv, LeasesShrink, Leased, Serviceable, ThreadsOf,
               db, process, Goto
  \* Steps that neither record nor forget a token nor touch the process.
  <1>1. ASSUME UNCHANGED <<held, phase, snapshot, clean>>,
               \A t \in Thread : pc[t] = "granted" => pc'[t] = "granted" /\ lease'[t] = lease[t],
               \A t \in Thread : pc'[t] = "forget" =>
                   \/ pc[t] = "forget" /\ lease'[t] = lease[t]
                   \/ \A j \in Serviceable : row'[j].state = "leased"
                                             => row'[j].token # lease'[t].token,
               \A t \in Thread : pc'[t] \in {"entering", "claiming", "granted"}
                                 => \/ pc[t] \in {"entering", "claiming", "granted"}
                                    \/ phase[Home[t]] = "running"
        PROVE  StopInv'
    <2>1. Accounted'
      <3>. SUFFICES ASSUME NEW p \in Proc, NEW j \in Serviceable,
                           row'[j].state = "leased", row'[j].token \in granted'[p]
                    PROVE  \/ row'[j].token \in held'[p]
                           \/ \E t \in ThreadsOf(p) : pc'[t] = "granted"
                                                    /\ lease'[t].token = row'[j].token
        BY DEF Accounted
      <3>1. Leased(j) /\ row'[j].token = row[j].token /\ row[j].token \in granted[p]
        OBVIOUS
      <3>2. CASE row[j].token \in held[p]
        BY <1>1, <3>1, <3>2
      <3>3. ASSUME NEW t \in ThreadsOf(p), pc[t] = "granted", lease[t].token = row[j].token
            PROVE  pc'[t] = "granted" /\ lease'[t].token = row'[j].token
        BY <1>1, <3>1, <3>3
      <3>. QED BY <3>1, <3>2, <3>3 DEF Accounted
    <2>2. ForgetsOnlySettled'
      BY <1>1 DEF ForgetsOnlySettled
    <2>3. CleanStop'
      BY <1>1 DEF CleanStop, Quiet
    <2>4. HandedBack'
      BY <1>1 DEF HandedBack
    <2>. QED BY <2>1, <2>2, <2>3, <2>4
  <1>2. ASSUME NEW j \in Job, Enqueue(j) \/ LeaseExpires(j) \/ BackoffElapses(j)
        PROVE  StopInv'
    BY <1>1, <1>2 DEF Enqueue, LeaseExpires, BackoffElapses
  <1>3. ASSUME NEW t \in Thread, LoopTop(t) \/ BeginClaim(t) \/ ClaimNothing(t) \/ ReapNothing(t)
               \/ SettleRaises(t) \/ \E j \in Job : ReapOne(t, j)
        PROVE  StopInv'
    BY <1>1, <1>3 DEF LoopTop, BeginClaim, ClaimNothing, ReapNothing, SettleRaises, ReapOne
  <1>4. CASE UNCHANGED vars
    BY <1>1, <1>4 DEF vars
  \* The three ways out of a settlement: the token is on no serviceable row.
  <1>5. ASSUME NEW t \in Thread, SettleHeld(t) PROVE StopInv'
    <2>1. lease[t].job \in Job /\ Holds(row[lease[t].job], lease[t].token)
      BY <1>5 DEF SettleHeld
    <2>2. row'[lease[t].job].state # "leased"
      BY <1>5, <2>1, EndsLease DEF SettleHeld, JobState
    <2>3. \A j \in Serviceable : row'[j].state = "leased" => row'[j].token # lease[t].token
      BY <2>1, <2>2 DEF Holds, TokenInv, RowTokens
    <2>. QED BY <1>1, <1>5, <2>3 DEF SettleHeld
  <1>6. ASSUME NEW t \in Thread, SettleRefusedByRun(t) PROVE StopInv'
    <2>1. lease[t].job \in PipelineJob /\ Holds(row[lease[t].job], lease[t].token)
      BY <1>6 DEF SettleRefusedByRun
    <2>2. \A j \in Serviceable : row'[j].state = "leased" => row'[j].token # lease[t].token
      BY <2>1 DEF Holds, TokenInv, RowTokens
    <2>. QED BY <1>1, <1>6, <2>2 DEF SettleRefusedByRun
  <1>7. ASSUME NEW t \in Thread, SettleLost(t) PROVE StopInv'
    <2>1. ~Holds(row[lease[t].job], lease[t].token)
      BY <1>7 DEF SettleLost
    <2>2. \A j \in Serviceable : row'[j].state = "leased" => row'[j].token # lease[t].token
      BY <2>1 DEF Holds, TokenInv, LeaseTokens
    <2>. QED BY <1>1, <1>7, <2>2 DEF SettleLost
  <1>8. ASSUME NEW t \in Thread, RecordToken(t) PROVE StopInv'
    <2>1. /\ pc[t] = "granted" /\ pc'[t] = "working"
          /\ \A u \in Thread : u # t => pc'[u] = pc[u]
          /\ held' = [held EXCEPT ![Home[t]] = @ \cup {lease[t].token}]
          /\ UNCHANGED <<row, granted, lease, phase, snapshot, clean>>
      BY <1>8 DEF RecordToken
    <2>2. Accounted'
      <3>. SUFFICES ASSUME NEW p \in Proc, NEW j \in Serviceable,
                           Leased(j), row[j].token \in granted[p], row[j].token \notin held'[p]
                    PROVE  \E u \in ThreadsOf(p) : pc'[u] = "granted" /\ lease[u].token = row[j].token
        BY <2>1 DEF Accounted
      <3>1. row[j].token \notin held[p]
        BY <2>1
      <3>2. PICK u \in ThreadsOf(p) : pc[u] = "granted" /\ lease[u].token = row[j].token
        BY <3>1 DEF Accounted
      <3>3. u # t
        BY <2>1, <3>2
      <3>. QED BY <2>1, <3>2, <3>3
    <2>3. ForgetsOnlySettled'
      BY <2>1 DEF ForgetsOnlySettled
    <2>4. CleanStop'
      BY <2>1 DEF CleanStop, Quiet
    <2>5. HandedBack'
      BY <2>1 DEF HandedBack
    <2>. QED BY <2>2, <2>3, <2>4, <2>5
  <1>9. ASSUME NEW t \in Thread, ForgetToken(t) PROVE StopInv'
    <2>1. /\ pc[t] = "forget" /\ pc'[t] = "top"
          /\ \A u \in Thread : u # t => pc'[u] = pc[u] /\ lease'[u] = lease[u]
          /\ held' = [held EXCEPT ![Home[t]] = @ \ {lease[t].token}]
          /\ UNCHANGED <<row, granted, phase, snapshot, clean>>
      BY <1>9 DEF ForgetToken
    <2>2. Accounted'
      <3>. SUFFICES ASSUME NEW p \in Proc, NEW j \in Serviceable,
                           Leased(j), row[j].token \in granted[p], row[j].token \notin held'[p]
                    PROVE  \E u \in ThreadsOf(p) : pc'[u] = "granted" /\ lease'[u].token = row[j].token
        BY <2>1 DEF Accounted
      <3>1. row[j].token # lease[t].token
        BY <2>1 DEF ForgetsOnlySettled
      <3>2. row[j].token \notin held[p]
        BY <2>1, <3>1
      <3>3. PICK u \in ThreadsOf(p) : pc[u] = "granted" /\ lease[u].token = row[j].token
        BY <3>2 DEF Accounted
      <3>4. u # t
        BY <2>1, <3>3
      <3>. QED BY <2>1, <3>3, <3>4
    <2>3. ForgetsOnlySettled'
      BY <2>1 DEF ForgetsOnlySettled
    <2>4. CleanStop'
      BY <2>1 DEF CleanStop, Quiet
    <2>5. HandedBack'
      BY <2>1 DEF HandedBack
    <2>. QED BY <2>2, <2>3, <2>4, <2>5
  <1>10. ASSUME NEW q \in Proc, StopBegin(q) \/ HeldTokens(q) PROVE StopInv'
    <2>1. /\ UNCHANGED <<row, granted, pc, lease, held>>
          /\ \A p \in Proc : p # q => /\ phase'[p] = phase[p] /\ clean'[p] = clean[p]
                                      /\ snapshot'[p] = snapshot[p]
      BY <1>10 DEF StopBegin, HeldTokens
    <2>2. ~clean'[q] \/ /\ phase'[q] = "releasing" /\ snapshot'[q] = held[q] /\ Quiet(q)
      BY <1>10 DEF StopBegin, HeldTokens, CleanStop, ClaimsInFlight, Quiet
    <2>3. Accounted' /\ ForgetsOnlySettled'
      BY <2>1 DEF Accounted, ForgetsOnlySettled
    <2>4. CleanStop'
      BY <2>1, <2>2 DEF CleanStop, Quiet
    <2>5. HandedBack'
      BY <2>1, <2>2 DEF HandedBack
    <2>. QED BY <2>3, <2>4, <2>5
  <1>11. ASSUME NEW q \in Proc, ReleaseLeases(q) PROVE StopInv'
    <2>1. /\ UNCHANGED <<granted, pc, lease, held, clean, snapshot>>
          /\ phase[q] = "releasing" /\ phase' = [phase EXCEPT ![q] = "stopped"]
      BY <1>11 DEF ReleaseLeases
    <2>2. \A j \in Job : Leased(j) /\ row[j].token \in snapshot[q] => row'[j].state # "leased"
      BY <1>11, EndsLease DEF ReleaseLeases, JobState
    <2>3. Accounted' /\ ForgetsOnlySettled'
      BY <2>1 DEF Accounted, ForgetsOnlySettled
    <2>4. CleanStop'
      BY <2>1 DEF CleanStop, Quiet
    <2>5. HandedBack'
      BY <2>1, <2>2 DEF HandedBack, Accounted, CleanStop, Quiet
    <2>. QED BY <2>3, <2>4, <2>5
  <1>12. ASSUME NEW q \in Proc, Boot(q) \/ Crash(q) PROVE StopInv'
    <2>1. /\ ~clean'[q] /\ granted'[q] = {}
          /\ \A t \in Thread : Home[t] = q => pc'[t] = "top"
          /\ \A t \in Thread : Home[t] # q => pc'[t] = pc[t] /\ lease'[t] = lease[t]
          /\ \A p \in Proc : p # q => /\ held'[p] = held[p] /\ granted'[p] = granted[p]
                                      /\ phase'[p] = phase[p] /\ snapshot'[p] = snapshot[p]
                                      /\ clean'[p] = clean[p]
          /\ row' = row
      BY <1>12 DEF Boot, Crash, Reboot
    <2>2. Accounted'
      <3>. SUFFICES ASSUME NEW p \in Proc, NEW j \in Serviceable,
                           Leased(j), row[j].token \in granted'[p], row[j].token \notin held'[p]
                    PROVE  \E t \in ThreadsOf(p) : pc'[t] = "granted" /\ lease'[t].token = row[j].token
        BY <2>1 DEF Accounted
      <3>1. p # q /\ row[j].token \in granted[p] /\ row[j].token \notin held[p]
        BY <2>1
      <3>2. PICK t \in ThreadsOf(p) : pc[t] = "granted" /\ lease[t].token = row[j].token
        BY <3>1 DEF Accounted
      <3>. QED BY <2>1, <3>1, <3>2
    <2>3. ForgetsOnlySettled'
      BY <2>1 DEF ForgetsOnlySettled
    <2>4. CleanStop'
      BY <2>1 DEF CleanStop, Quiet
    <2>5. HandedBack'
      BY <2>1 DEF HandedBack
    <2>. QED BY <2>2, <2>3, <2>4, <2>5
  <1>. QED
    BY <1>2, <1>3, <1>4, <1>5, <1>6, <1>7, <1>8, <1>9, <1>10, <1>11, <1>12,
       OnlyClaimsLease, ClaimKeepsStop
    DEF Next, ThreadStep, ProcStep

\* A graceful stop that found every thread accounted for hands back every lease
\* of a job whose settlement no run can refuse: no interleaving of claims,
\* settlements, outages and other processes leaves one behind.
THEOREM GracefulStop == Spec => []StopHandsBack
  <1>1. StopInv => StopHandsBack
    BY DEF StopInv, HandedBack, StopHandsBack, StoppedCleanly, LeftBehind, Serviceable, Leased
  <1>2. Init => TypeOK /\ TokenInv /\ StopInv
    BY TypeInit, TokenInit, StopInit
  <1>3. TypeOK /\ TokenInv /\ StopInv /\ [Next]_vars => TypeOK' /\ TokenInv' /\ StopInv'
    BY TypeStep, TokenStep, StopStep
  <1>. QED BY <1>1, <1>2, <1>3, PTL DEF Spec
-------------------------------------------------------------------------------
(* Settled rows *)

\* No step changes a done or dead row: claims, retries, releases and the reaper
\* all ask for an open row, and an insert that meets the dedup key does nothing.
THEOREM SettledIsFinal == Spec => TerminalIsFinal
  <1>1. TypeOK /\ [Next]_vars => \A j \in Job : Terminal(row[j]) => row'[j] = row[j]
    <2>. SUFFICES ASSUME TypeOK, [Next]_vars, NEW j \in Job, Terminal(row[j])
                  PROVE  row'[j] = row[j]
      OBVIOUS
    <2>. USE DEF TypeOK, Terminal, db
    <2>1. ASSUME NEW i \in Job, Enqueue(i) \/ LeaseExpires(i) \/ BackoffElapses(i)
          PROVE  row'[j] = row[j]
      BY <2>1 DEF Enqueue, LeaseExpires, BackoffElapses
    <2>2. ASSUME NEW t \in Thread, NEW i \in Job, GrantClaim(t, i) \/ ReapOne(t, i)
          PROVE  row'[j] = row[j]
      BY <2>2 DEF GrantClaim, Claimable, ReapOne, ExpiredFinal
    <2>3. ASSUME NEW t \in Thread, SettleHeld(t) PROVE row'[j] = row[j]
      <3>1. lease[t].job # j /\ lease[t].job \in Job
        BY <2>3 DEF SettleHeld, Holds
      <3>. QED BY <2>3, <3>1 DEF SettleHeld
    <2>4. ASSUME NEW p \in Proc, ReleaseLeases(p) PROVE row'[j] = row[j]
      BY <2>4 DEF ReleaseLeases
    <2>5. ASSUME NEW t \in Thread, LoopTop(t) \/ BeginClaim(t) \/ ClaimNothing(t)
                 \/ ReapNothing(t) \/ RecordToken(t) \/ SettleRefusedByRun(t)
                 \/ SettleLost(t) \/ SettleRaises(t) \/ ForgetToken(t)
          PROVE row'[j] = row[j]
      BY <2>5 DEF LoopTop, BeginClaim, ClaimNothing, ReapNothing, RecordToken,
         SettleRefusedByRun, SettleLost, SettleRaises, ForgetToken
    <2>6. ASSUME NEW p \in Proc, StopBegin(p) \/ HeldTokens(p) \/ Boot(p) \/ Crash(p)
          PROVE row'[j] = row[j]
      BY <2>6 DEF StopBegin, HeldTokens, Boot, Crash, Reboot
    <2>7. CASE UNCHANGED vars
      BY <2>7 DEF vars
    <2>. QED
      BY <2>1, <2>2, <2>3, <2>4, <2>5, <2>6, <2>7 DEF Next, ThreadStep, ProcStep
  <1>2. TypeOK /\ [Next]_vars
        => [\A j \in Job : Terminal(row[j]) => row'[j] = row[j]]_vars
    BY <1>1
  <1>. QED BY <1>2, TypeInit, TypeStep, PTL DEF Spec, TerminalIsFinal

-------------------------------------------------------------------------------
(* The promise: JobQueue implements JobPromise *)

\* A thread carries a lease from its claim to the end of its settlement only.
IdleCarriesNothing ==
    \A t \in Thread : pc[t] \notin {"granted", "working", "forget"} => lease[t] = NoLease

LEMMA IdleInit == Init => IdleCarriesNothing
  BY DEF Init, IdleCarriesNothing

LEMMA IdleStep == TypeOK /\ IdleCarriesNothing /\ [Next]_vars => IdleCarriesNothing'
  <1>. SUFFICES ASSUME TypeOK, IdleCarriesNothing, [Next]_vars PROVE IdleCarriesNothing'
    OBVIOUS
  <1>. USE DEF TypeOK, IdleCarriesNothing, db, process, Goto
  <1>1. ASSUME NEW j \in Job, Enqueue(j) \/ LeaseExpires(j) \/ BackoffElapses(j)
        PROVE  IdleCarriesNothing'
    BY <1>1 DEF Enqueue, LeaseExpires, BackoffElapses
  <1>2. ASSUME NEW t \in Thread, LoopTop(t) \/ BeginClaim(t) \/ ClaimNothing(t) \/ ReapNothing(t)
               \/ RecordToken(t) \/ SettleHeld(t) \/ SettleRefusedByRun(t) \/ SettleLost(t)
               \/ SettleRaises(t) \/ ForgetToken(t)
        PROVE  IdleCarriesNothing'
    BY <1>2 DEF LoopTop, BeginClaim, ClaimNothing, ReapNothing, RecordToken, SettleHeld,
       SettleRefusedByRun, SettleLost, SettleRaises, ForgetToken
  <1>3. ASSUME NEW t \in Thread, NEW j \in Job, GrantClaim(t, j) \/ ReapOne(t, j)
        PROVE  IdleCarriesNothing'
    BY <1>3 DEF GrantClaim, ReapOne
  <1>4. ASSUME NEW p \in Proc, StopBegin(p) \/ HeldTokens(p) \/ ReleaseLeases(p)
               \/ Boot(p) \/ Crash(p)
        PROVE  IdleCarriesNothing'
    BY <1>4 DEF StopBegin, HeldTokens, ReleaseLeases, Boot, Crash, Reboot
  <1>5. CASE UNCHANGED vars
    BY <1>5 DEF vars
  <1>. QED
    BY <1>1, <1>2, <1>3, <1>4, <1>5 DEF Next, ThreadStep, ProcStep

LEMMA PromiseInit == Init => Promise!Init
  <1>. SUFFICES ASSUME Init PROVE Promise!Init
    OBVIOUS
  <1>1. \A j \in Job : Promised(row[j]) = "absent" /\ row[j].attempts = 0
    BY DEF Init, AbsentRow, Promised
  <1>2. \A j \in Job : Holders(j) = {}
    BY DEF Init, NoLease, Holders
  <1>. QED BY <1>1, <1>2 DEF Promise!Init

\* Rows keep their state, their token and their attempts, and threads keep or
\* drop what they carry: some holders vanish, at most.
KeepsRows ==
    /\ \A j \in Job : /\ row'[j].state = row[j].state
                      /\ row'[j].token = row[j].token
                      /\ row'[j].attempts = row[j].attempts
    /\ \A t \in Thread : lease'[t] = lease[t] \/ lease'[t] = NoLease

LEMMA HoldersVanish == ASSUME KeepsRows PROVE \E W \in SUBSET Thread : Promise!Vanish(W)
  <1>. DEFINE W == {t \in Thread : lease'[t] # lease[t]}
  <1>1. NoLease.token = NoToken
    BY DEF NoLease
  <1>2. \A j \in Job : Holders(j)' = Holders(j) \ W
    BY <1>1 DEF KeepsRows, Holders, Holds
  <1>3. \A j \in Job : Promised(row[j])' = Promised(row[j])
    BY DEF KeepsRows, Promised
  <1>4. Promise!Vanish(W)
    BY <1>2, <1>3 DEF KeepsRows, Promise!Vanish
  <1>. QED BY <1>4

\* At most one thread passes the fence of a row.
LEMMA OneHolder ==
    ASSUME TypeOK, TokenInv, NEW j \in Job, NEW t \in Holders(j)
    PROVE  Holders(j) = {t}
  BY DEF TypeOK, TokenInv, LeaseTokens, Holders, Holds

\* A step that ends the leases of the jobs of J and touches no other row leaves
\* these jobs without a holder and every other job with the one it had.
LEMMA LeaseEnds ==
    ASSUME TypeOK, NEW J \in SUBSET Job, lease' = lease,
           \A i \in J : row'[i].state # "leased",
           \A i \in Job \ J : row'[i] = row[i]
    PROVE  /\ \A i \in J : Holders(i)' = {}
           /\ \A i \in Job \ J : Holders(i)' = Holders(i)
  BY DEF Holders, Holds

LEMMA AtCeiling ==
    ASSUME NEW max \in Nat, NEW n \in 0..max, ~(n < max)
    PROVE  n = max
  OBVIOUS

LEMMA PromiseStep ==
    TypeOK /\ TokenInv /\ IdleCarriesNothing /\ [Next]_vars => [Promise!Next]_(Promise!service)
  <1>. SUFFICES ASSUME TypeOK, TokenInv, IdleCarriesNothing, [Next]_vars
                PROVE  Promise!Next \/ UNCHANGED Promise!service
    OBVIOUS
  <1>. USE DEF TypeOK, db, process, Goto
  <1>1. ASSUME KeepsRows PROVE Promise!Next
    BY <1>1, HoldersVanish DEF Promise!Next
  <1>2. ASSUME NEW j \in Job, Enqueue(j) PROVE Promise!Next
    <2>1. PICK due \in BOOLEAN : row' = [row EXCEPT ![j] = Enqueued(@, due)]
      BY <1>2 DEF Enqueue
    <2>2. row[j].state = "absent" /\ lease' = lease
      BY <1>2 DEF Enqueue
    <2>3. /\ row'[j].state = "pending" /\ row'[j].attempts = row[j].attempts
          /\ \A i \in Job : i # j => row'[i] = row[i]
      BY <2>1, <2>2 DEF Enqueued, Row
    <2>4. \A i \in Job : Holders(i)' = Holders(i)
      BY <2>2, <2>3 DEF Holders, Holds
    <2>5. /\ Promised(row[j]) = "absent" /\ Promised(row[j])' = "queued"
          /\ \A i \in Job : i # j => Promised(row[i])' = Promised(row[i])
      BY <2>2, <2>3 DEF Promised
    <2>6. Promise!Accept(j)
      BY <2>3, <2>4, <2>5 DEF Promise!Accept
    <2>. QED BY <2>6 DEF Promise!Next
  <1>3. ASSUME NEW j \in Job, LeaseExpires(j) \/ BackoffElapses(j) PROVE KeepsRows
    <2>1. /\ LeaseRanOut(row[j]).state = row[j].state
          /\ LeaseRanOut(row[j]).token = row[j].token
          /\ LeaseRanOut(row[j]).attempts = row[j].attempts
          /\ BackoffElapsed(row[j]).state = row[j].state
          /\ BackoffElapsed(row[j]).token = row[j].token
          /\ BackoffElapsed(row[j]).attempts = row[j].attempts
      BY DEF LeaseRanOut, BackoffElapsed, Row
    <2>. QED BY <1>3, <2>1 DEF KeepsRows, LeaseExpires, BackoffElapses
  <1>4. ASSUME NEW t \in Thread, LoopTop(t) \/ BeginClaim(t) \/ ClaimNothing(t)
               \/ ReapNothing(t) \/ RecordToken(t) \/ SettleRefusedByRun(t)
               \/ SettleLost(t) \/ SettleRaises(t) \/ ForgetToken(t)
        PROVE KeepsRows
    BY <1>4 DEF KeepsRows, LoopTop, BeginClaim, ClaimNothing, ReapNothing, RecordToken,
       SettleRefusedByRun, SettleLost, SettleRaises, ForgetToken
  <1>5. ASSUME NEW p \in Proc, StopBegin(p) \/ HeldTokens(p) \/ Boot(p) \/ Crash(p)
        PROVE KeepsRows
    BY <1>5 DEF KeepsRows, StopBegin, HeldTokens, Boot, Crash, Reboot
  <1>6. ASSUME NEW t \in Thread, NEW j \in Job, GrantClaim(t, j) PROVE Promise!Next
    <2>. DEFINE new == minted + 1
    <2>1. /\ row'[j].state = "leased" /\ row'[j].token = new
          /\ \A i \in Job : i # j => row'[i] = row[i]
          /\ lease'[t] = [job |-> j, token |-> new]
          /\ \A u \in Thread : u # t => lease'[u] = lease[u]
      BY <1>6, ClaimGrants
    <2>2. /\ lease[t].token = NoToken
          /\ row[j].state \in {"pending", "leased"} /\ row[j].attempts < MaxAttempts
      BY <1>6 DEF GrantClaim, Claimable, IdleCarriesNothing, NoLease
    <2>3. row'[j].attempts = row[j].attempts + 1
      <3>1. row' = [row EXCEPT ![j] = Claimed(@, minted')]
        BY <1>6 DEF GrantClaim
      <3>2. Claimed(row[j], minted').attempts = row[j].attempts + 1
        BY DEF Claimed, Row
      <3>. QED BY <3>1, <3>2
    <2>4. new # NoToken /\ \A u \in Thread : lease[u].token # new
      BY DEF TokenInv, LeaseTokens
    <2>. HIDE DEF new
    <2>5. Holders(j)' = {t}
      BY <2>1, <2>4 DEF Holders, Holds
    <2>6. ASSUME NEW i \in Job, i # j PROVE Holders(i)' = Holders(i)
      BY <2>1, <2>2, <2>6 DEF Holders, Holds
    <2>7. /\ Promised(row[j]) \in {"queued", "held"} /\ Promised(row[j])' = "held"
          /\ \A i \in Job : i # j => Promised(row[i])' = Promised(row[i])
      BY <2>1, <2>2 DEF Promised
    <2>8. Promise!Grant(t, j)
      BY <2>1, <2>2, <2>3, <2>5, <2>6, <2>7 DEF Promise!Grant
    <2>. QED BY <2>8 DEF Promise!Next
  <1>7. ASSUME NEW t \in Thread, NEW j \in Job, ReapOne(t, j) PROVE Promise!Next
    <2>1. Settled(row[j], "dead").state = "dead" /\ Settled(row[j], "dead").attempts = row[j].attempts
      BY DEF Settled, Row
    <2>2. /\ row[j].state = "leased" /\ row[j].attempts = MaxAttempts
          /\ row' = [row EXCEPT ![j] = Settled(@, "dead")] /\ lease' = lease
      BY <1>7 DEF ReapOne, ExpiredFinal
    <2>3. /\ row'[j].state = "dead" /\ row'[j].attempts = row[j].attempts
          /\ \A i \in Job : i # j => row'[i] = row[i]
      BY <2>1, <2>2
    <2>4. Holders(j)' = {} /\ \A i \in Job : i # j => Holders(i)' = Holders(i)
      BY <2>2, <2>3, LeaseEnds DEF Holders, Holds
    <2>5. /\ Promised(row[j]) = "held" /\ Promised(row[j])' = "dead"
          /\ \A i \in Job : i # j => Promised(row[i])' = Promised(row[i])
      BY <2>2, <2>3 DEF Promised
    <2>6. Promise!GiveUp(j)
      BY <2>2, <2>3, <2>4, <2>5 DEF Promise!GiveUp
    <2>. QED BY <2>6 DEF Promise!Next
  <1>8. ASSUME NEW t \in Thread, SettleHeld(t) PROVE Promise!Next
    <2>. PICK j \in Job : j = lease[t].job
      OBVIOUS
    <2>1. /\ Holds(row[j], lease[t].token) /\ lease' = lease
          /\ row' \in {[row EXCEPT ![j] = Settled(@, "done")]} \cup
                      (IF row[j].attempts < MaxAttempts
                       THEN {[row EXCEPT ![j] = Retried(@)]}
                       ELSE {[row EXCEPT ![j] = Settled(@, "dead")]})
      BY <1>8 DEF SettleHeld
    <2>2. \A s \in JobState : /\ Settled(row[j], s).state = s
                              /\ Settled(row[j], s).attempts = row[j].attempts
      BY <2>1 DEF Settled, Row, JobState
    <2>3. /\ Retried(row[j]).state = "pending"
          /\ Retried(row[j]).attempts = row[j].attempts
      <3>1. Settled(row[j], "pending") \in Row(MaxAttempts)
        BY <2>1, RowTransitions DEF JobState
      <3>. QED BY <2>2, <3>1 DEF Retried, Row, JobState
    <2>4. /\ row[j].state = "leased" /\ row'[j].attempts = row[j].attempts
          /\ \A i \in Job : i # j => row'[i] = row[i]
          /\ \/ row'[j].state = "done"
             \/ row[j].attempts < MaxAttempts /\ row'[j].state = "pending"
             \/ row[j].attempts = MaxAttempts /\ row'[j].state = "dead"
      <3>1. /\ row[j].attempts \in 0..MaxAttempts
            /\ ~(row[j].attempts < MaxAttempts) => row[j].attempts = MaxAttempts
        <4>1. row[j].attempts \in 0..MaxAttempts
          BY DEF Row
        <4>. QED BY <4>1, AtCeiling
      <3>2. /\ Settled(row[j], "done").state = "done" /\ Settled(row[j], "dead").state = "dead"
            /\ Settled(row[j], "done").attempts = row[j].attempts
            /\ Settled(row[j], "dead").attempts = row[j].attempts
        BY <2>2 DEF JobState
      <3>. HIDE DEF Row
      <3>3. row[j].state = "leased" /\ \A i \in Job : i # j => row'[i] = row[i]
        BY <2>1 DEF Holds
      <3>4. CASE row' = [row EXCEPT ![j] = Settled(@, "done")]
        BY <3>2, <3>3, <3>4
      <3>5. CASE row[j].attempts < MaxAttempts /\ row' = [row EXCEPT ![j] = Retried(@)]
        BY <2>3, <3>3, <3>5
      <3>6. CASE ~(row[j].attempts < MaxAttempts) /\ row' = [row EXCEPT ![j] = Settled(@, "dead")]
        BY <3>1, <3>2, <3>3, <3>6
      <3>. QED BY <2>1, <3>4, <3>5, <3>6
    <2>5. Holders(j)' = {} /\ \A i \in Job : i # j => Holders(i)' = Holders(i)
      BY <2>1, <2>4 DEF Holders, Holds
    <2>6. Holders(j) = {t}
      <3>1. lease[t].token # NoToken
        BY <2>1, <2>4 DEF Holds, TokenInv, RowTokens, Leased
      <3>2. t \in Holders(j)
        BY <2>1, <3>1 DEF Holders
      <3>. QED BY <2>1, <3>2, OneHolder
    <2>7. /\ Promised(row[j]) = "held"
          /\ row'[j].state = "done" => Promised(row[j])' = "done"
          /\ row'[j].state = "pending" => Promised(row[j])' = "queued"
          /\ row'[j].state = "dead" => Promised(row[j])' = "dead"
          /\ \A i \in Job : i # j => Promised(row[i])' = Promised(row[i])
      BY <2>4 DEF Promised
    <2>8. Promise!Conclude(t, j)
      <3>1. [i \in Job |-> Holders(i)]' = [[i \in Job |-> Holders(i)] EXCEPT ![j] = {}]
        BY <2>5
      <3>2. [i \in Job |-> row[i].attempts]' = [i \in Job |-> row[i].attempts]
        BY <2>4
      <3>3. \A s : Promised(row[j])' = s =>
              [i \in Job |-> Promised(row[i])]'
                = [[i \in Job |-> Promised(row[i])] EXCEPT ![j] = s]
        BY <2>7
      <3>4. \/ Promised(row[j])' = "done"
            \/ row[j].attempts < MaxAttempts /\ Promised(row[j])' = "queued"
            \/ row[j].attempts = MaxAttempts /\ Promised(row[j])' = "dead"
        BY <2>4, <2>7
      <3>. QED BY <2>6, <2>7, <3>1, <3>2, <3>3, <3>4 DEF Promise!Conclude
    <2>. QED BY <2>1, <2>8 DEF Promise!Next
  <1>9. ASSUME NEW p \in Proc, ReleaseLeases(p) PROVE Promise!Next
    <2>. DEFINE J == {j \in Job : row[j].state = "leased" /\ row[j].token \in snapshot[p]}
    <2>1. \A j \in Job : /\ Released(row[j]).state = "pending"
                         /\ Released(row[j]).attempts = row[j].attempts
      <3>. SUFFICES ASSUME NEW j \in Job
                    PROVE  /\ Released(row[j]).state = "pending"
                           /\ Released(row[j]).attempts = row[j].attempts
        OBVIOUS
      <3>1. /\ Settled(row[j], "pending").state = "pending"
            /\ Settled(row[j], "pending").attempts = row[j].attempts
        BY DEF Settled, Row
      <3>2. Settled(row[j], "pending") \in Row(MaxAttempts)
        BY RowTransitions DEF JobState
      <3>. QED BY <3>1, <3>2 DEF Released, Row
    <2>2. /\ lease' = lease
          /\ \A j \in J : row'[j] = Released(row[j])
          /\ \A j \in Job \ J : row'[j] = row[j]
      BY <1>9 DEF ReleaseLeases
    <2>3. /\ \A j \in J : row[j].state = "leased" /\ row'[j].state = "pending"
          /\ \A j \in Job : row'[j].attempts = row[j].attempts
      BY <2>1, <2>2
    <2>4. J \in SUBSET Job
      OBVIOUS
    <2>. HIDE DEF J
    <2>5. /\ \A j \in J : Holders(j)' = {}
          /\ \A j \in Job \ J : Holders(j)' = Holders(j)
      BY <2>2, <2>3, <2>4 DEF Holders, Holds
    <2>6. /\ \A j \in J : Promised(row[j]) = "held" /\ Promised(row[j])' = "queued"
          /\ \A j \in Job \ J : Promised(row[j])' = Promised(row[j])
      BY <2>2, <2>3, <2>4 DEF Promised
    <2>7. Promise!PutBack(J)
      BY <2>3, <2>4, <2>5, <2>6 DEF Promise!PutBack
    <2>. QED BY <2>4, <2>7 DEF Promise!Next
  <1>10. ASSUME UNCHANGED vars PROVE Promise!Next
    <2>1. row' = row /\ lease' = lease
      BY <1>10 DEF vars
    <2>. QED BY <1>1, <2>1 DEF KeepsRows
  <1>. QED
    BY <1>1, <1>2, <1>3, <1>4, <1>5, <1>6, <1>7, <1>8, <1>9, <1>10
    DEF Next, ThreadStep, ProcStep

\* The jobs table, with its tokens, clocks, zombies, crashes and shutdowns,
\* implements the promise of the queue for any number of jobs, processes and
\* threads: one holder at a time, a try per grant, no job given up with tries left.
THEOREM QueueKeepsPromise == Spec => KeepsPromise
  <1>1. Init => TypeOK /\ TokenInv /\ IdleCarriesNothing
    BY TypeInit, TokenInit, IdleInit
  <1>2. TypeOK /\ TokenInv /\ IdleCarriesNothing /\ [Next]_vars
        => TypeOK' /\ TokenInv' /\ IdleCarriesNothing'
    BY TypeStep, TokenStep, IdleStep
  <1>. QED BY <1>1, <1>2, PromiseInit, PromiseStep, PTL DEF Spec, KeepsPromise, Promise!Spec

-------------------------------------------------------------------------------
(* Executions are paid for at the claim *)

Bounded ==
    \A j \in Job : IsFiniteSet(Carriers(j)) /\ Cardinality(Carriers(j)) <= row[j].attempts

\* Threads that drop what they carry, over rows that keep their attempts, stay within
\* the bound.
LEMMA DropsStayBounded ==
    ASSUME TypeOK, Bounded,
           \A j \in Job : row'[j].attempts = row[j].attempts,
           \A t \in Thread : lease'[t] = lease[t] \/ lease'[t] = NoLease
    PROVE  Bounded'
  <1>. SUFFICES ASSUME NEW j \in Job
                PROVE  IsFiniteSet(Carriers(j)') /\ Cardinality(Carriers(j)') <= row'[j].attempts
    BY DEF Bounded
  <1>0. NoLease.token = NoToken
    BY DEF NoLease
  <1>1. Carriers(j)' \subseteq Carriers(j)
    BY <1>0 DEF Carriers
  <1>2. IsFiniteSet(Carriers(j)) /\ Cardinality(Carriers(j)) <= row[j].attempts
    BY DEF Bounded
  <1>3. /\ IsFiniteSet(Carriers(j)')
        /\ Cardinality(Carriers(j)') <= Cardinality(Carriers(j))
    BY <1>1, <1>2, FS_Subset
  <1>4. Cardinality(Carriers(j)) \in Nat /\ Cardinality(Carriers(j)') \in Nat
    BY <1>2, <1>3, FS_CardinalityType
  <1>5. row[j].attempts \in 0..MaxAttempts /\ row'[j].attempts = row[j].attempts
    BY DEF TypeOK, Row
  <1>. QED BY <1>2, <1>3, <1>4, <1>5

LEMMA BoundedInit == Init => Bounded
  <1>. SUFFICES ASSUME Init, NEW j \in Job
                PROVE  IsFiniteSet(Carriers(j)) /\ Cardinality(Carriers(j)) <= row[j].attempts
    BY DEF Bounded
  <1>1. Carriers(j) = {} /\ row[j].attempts = 0
    BY DEF Init, Carriers, NoLease, AbsentRow
  <1>. QED BY <1>1, FS_EmptySet

LEMMA BoundedStep ==
    TypeOK /\ TokenInv /\ IdleCarriesNothing /\ Bounded /\ [Next]_vars => Bounded'
  <1>. SUFFICES ASSUME TypeOK, TokenInv, IdleCarriesNothing, Bounded, [Next]_vars PROVE Bounded'
    OBVIOUS
  <1>. USE DEF TypeOK, db, process, Goto
  <1>1. ASSUME \A j \in Job : row'[j].attempts = row[j].attempts,
               \A t \in Thread : lease'[t] = lease[t] \/ lease'[t] = NoLease
        PROVE  Bounded'
    BY <1>1, DropsStayBounded
  <1>2. \A r \in Row(MaxAttempts), due \in BOOLEAN :
          /\ Enqueued(r, due).attempts = r.attempts
          /\ LeaseRanOut(r).attempts = r.attempts /\ BackoffElapsed(r).attempts = r.attempts
    BY DEF Enqueued, LeaseRanOut, BackoffElapsed, Row
  <1>3. ASSUME NEW r \in Row(MaxAttempts)
        PROVE  /\ \A s \in JobState : Settled(r, s).attempts = r.attempts
               /\ Retried(r).attempts = r.attempts /\ Released(r).attempts = r.attempts
    <2>1. \A s \in JobState : Settled(r, s).attempts = r.attempts
      BY DEF Settled, Row
    <2>2. Settled(r, "pending") \in Row(MaxAttempts) /\ "pending" \in JobState
      BY RowTransitions DEF JobState
    <2>. QED BY <2>1, <2>2 DEF Retried, Released, Row
  <1>. HIDE DEF Row
  <1>4. ASSUME NEW j \in Job, Enqueue(j) \/ LeaseExpires(j) \/ BackoffElapses(j) PROVE Bounded'
    <2>1. CASE Enqueue(j)
      <3>1. PICK due \in BOOLEAN : row' = [row EXCEPT ![j] = Enqueued(@, due)] /\ lease' = lease
        BY <2>1 DEF Enqueue
      <3>2. Enqueued(row[j], due).attempts = row[j].attempts
        BY <1>2
      <3>. QED BY <1>1, <3>1, <3>2
    <2>2. CASE LeaseExpires(j) \/ BackoffElapses(j)
      <3>1. /\ LeaseRanOut(row[j]).attempts = row[j].attempts
            /\ BackoffElapsed(row[j]).attempts = row[j].attempts
        BY <1>2
      <3>. QED BY <1>1, <2>2, <3>1 DEF LeaseExpires, BackoffElapses
    <2>. QED BY <1>4, <2>1, <2>2
  <1>5. ASSUME NEW t \in Thread, LoopTop(t) \/ BeginClaim(t) \/ ClaimNothing(t)
               \/ ReapNothing(t) \/ RecordToken(t) \/ SettleRefusedByRun(t)
               \/ SettleLost(t) \/ SettleRaises(t) \/ ForgetToken(t)
        PROVE Bounded'
    BY <1>1, <1>5 DEF LoopTop, BeginClaim, ClaimNothing, ReapNothing, RecordToken,
       SettleRefusedByRun, SettleLost, SettleRaises, ForgetToken
  <1>6. ASSUME NEW t \in Thread, NEW j \in Job, ReapOne(t, j) PROVE Bounded'
    <2>1. Settled(row[j], "dead").attempts = row[j].attempts
      BY <1>3 DEF JobState
    <2>. QED BY <1>1, <1>6, <2>1 DEF ReapOne
  <1>7. ASSUME NEW t \in Thread, SettleHeld(t) PROVE Bounded'
    <2>. PICK j \in Job : j = lease[t].job
      OBVIOUS
    <2>1. /\ Settled(row[j], "done").attempts = row[j].attempts
          /\ Settled(row[j], "dead").attempts = row[j].attempts
          /\ Retried(row[j]).attempts = row[j].attempts
      BY <1>3 DEF JobState
    <2>2. /\ lease' = lease
          /\ row' \in {[row EXCEPT ![j] = Settled(@, "done")], [row EXCEPT ![j] = Retried(@)],
                       [row EXCEPT ![j] = Settled(@, "dead")]}
      BY <1>7 DEF SettleHeld
    <2>. QED BY <1>1, <2>1, <2>2
  <1>8. ASSUME NEW p \in Proc, StopBegin(p) \/ HeldTokens(p) \/ Boot(p) \/ Crash(p) PROVE Bounded'
    BY <1>1, <1>8 DEF StopBegin, HeldTokens, Boot, Crash, Reboot
  <1>9. ASSUME NEW p \in Proc, ReleaseLeases(p) PROVE Bounded'
    BY <1>1, <1>3, <1>9 DEF ReleaseLeases
  <1>10. ASSUME NEW t \in Thread, NEW j \in Job, GrantClaim(t, j) PROVE Bounded'
    <2>0. /\ \A i \in Job : i # j => row'[i] = row[i]
          /\ lease'[t] = [job |-> j, token |-> minted + 1]
          /\ \A u \in Thread : u # t => lease'[u] = lease[u]
      BY <1>10, ClaimGrants
    <2>1. /\ lease'[t].job = j
          /\ \A i \in Job : i # j => row'[i] = row[i]
          /\ \A u \in Thread : u # t => lease'[u] = lease[u]
      BY <2>0
    <2>2. lease[t].token = NoToken
      BY <1>10 DEF GrantClaim, IdleCarriesNothing, NoLease
    <2>3. row'[j].attempts = row[j].attempts + 1
      <3>1. row' = [row EXCEPT ![j] = Claimed(@, minted')]
        BY <1>10 DEF GrantClaim
      <3>2. Claimed(row[j], minted').attempts = row[j].attempts + 1
        BY DEF Claimed, Row
      <3>. QED BY <3>1, <3>2
    <2>4. ASSUME NEW i \in Job, i # j
          PROVE  IsFiniteSet(Carriers(i)') /\ Cardinality(Carriers(i)') <= row'[i].attempts
      <3>1. Carriers(i)' = Carriers(i)
        BY <2>1, <2>2, <2>4 DEF Carriers
      <3>. QED BY <2>1, <2>4, <3>1 DEF Bounded
    <2>5. IsFiniteSet(Carriers(j)') /\ Cardinality(Carriers(j)') <= row'[j].attempts
      <3>1. Carriers(j)' \subseteq Carriers(j) \cup {t}
        BY <2>1, <2>2 DEF Carriers
      <3>2. IsFiniteSet(Carriers(j)) /\ Cardinality(Carriers(j)) <= row[j].attempts
        BY DEF Bounded
      <3>3. /\ IsFiniteSet(Carriers(j) \cup {t}) /\ Cardinality(Carriers(j)) \in Nat
            /\ Cardinality(Carriers(j) \cup {t}) \in {Cardinality(Carriers(j)), Cardinality(Carriers(j)) + 1}
        BY <3>2, FS_AddElement, FS_CardinalityType
      <3>4. /\ IsFiniteSet(Carriers(j)')
            /\ Cardinality(Carriers(j)') <= Cardinality(Carriers(j) \cup {t})
        BY <3>1, <3>3, FS_Subset
      <3>5. Cardinality(Carriers(j)') \in Nat /\ row[j].attempts \in 0..MaxAttempts
        BY <3>4, FS_CardinalityType DEF Row
      <3>. QED BY <2>3, <3>2, <3>3, <3>4, <3>5
    <2>. QED BY <2>4, <2>5 DEF Bounded
  <1>11. ASSUME UNCHANGED vars PROVE Bounded'
    <2>1. row' = row /\ lease' = lease
      BY <1>11 DEF vars
    <2>. QED BY <1>1, <2>1
  <1>. QED
    BY <1>4, <1>5, <1>6, <1>7, <1>8, <1>9, <1>10, <1>11 DEF Next, ThreadStep, ProcStep

\* Workers that die, zombies and second claimants together never execute a job more
\* often than its attempts, for any number of them (the claim burns the attempt).
THEOREM ExecutionsAreBounded == Spec => []AttemptsBoundExecutions
  <1>1. Init => TypeOK /\ TokenInv /\ IdleCarriesNothing /\ Bounded
    BY TypeInit, TokenInit, IdleInit, BoundedInit
  <1>2. TypeOK /\ TokenInv /\ IdleCarriesNothing /\ Bounded /\ [Next]_vars
        => TypeOK' /\ TokenInv' /\ IdleCarriesNothing' /\ Bounded'
    BY TypeStep, TokenStep, IdleStep, BoundedStep
  <1>3. Bounded => AttemptsBoundExecutions
    BY DEF Bounded, AttemptsBoundExecutions
  <1>. QED BY <1>1, <1>2, <1>3, PTL DEF Spec
===============================================================================
