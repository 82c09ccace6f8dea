-------------------------------- MODULE JobRow --------------------------------
(***************************************************************************)
(* One row of the `jobs` table and the single-statement transitions that    *)
(* app/db/repo/jobs.py, app/db/repo/job_settlement.py and app/queue/drain.py *)
(* apply to it.  Wall-clock columns are kept as the two comparisons the SQL  *)
(* makes: `due` is available_at <= now(), `expired` is leased_until < now(). *)
(* A lease token is a number; NoToken is the NULL of the column.             *)
(***************************************************************************)
EXTENDS Naturals

NoToken == 0

JobState == {"absent", "pending", "leased", "done", "dead"}

\* "absent" stands for a dedup_key that no row carries yet.
Row(max) == [state : JobState, attempts : 0..max, token : Nat,
             due : BOOLEAN, expired : BOOLEAN]

AbsentRow == [state |-> "absent", attempts |-> 0, token |-> NoToken,
              due |-> FALSE, expired |-> FALSE]

Open(r) == r.state \in {"pending", "leased"}
Terminal(r) == r.state \in {"done", "dead"}

\* INSERT ... ON CONFLICT (dedup_key) DO NOTHING: an existing row is untouched.
Enqueued(r, due) ==
    IF r.state = "absent"
    THEN [r EXCEPT !.state = "pending", !.due = due]
    ELSE r

Claimable(r, max) ==
    /\ r.attempts < max
    /\ \/ r.state = "pending" /\ r.due
       \/ r.state = "leased" /\ r.expired

\* Variants of Claimed: a reclaim keeps the token it finds; the attempt is not counted.
ClaimedSameToken(r, token) ==
    [r EXCEPT !.state = "leased", !.token = IF @ = NoToken THEN token ELSE @,
              !.expired = FALSE, !.attempts = @ + 1]
ClaimedUncounted(r, token) ==
    [r EXCEPT !.state = "leased", !.token = token, !.expired = FALSE]

Claimed(r, token) ==
    [r EXCEPT !.state = "leased", !.token = token, !.expired = FALSE,
              !.attempts = @ + 1]

\* The fence: state = 'leased' AND lease_token = %s.
Holds(r, token) == r.state = "leased" /\ r.token = token

Settled(r, state) == [r EXCEPT !.state = state, !.token = NoToken, !.expired = FALSE]
Retried(r) == [Settled(r, "pending") EXCEPT !.due = FALSE]
Released(r) == [Settled(r, "pending") EXCEPT !.due = TRUE]

\* Variants of ExpiredFinal: the reaper waits for an attempt past the last; it
\* takes any lease that ran out.
ExpiredPastFinal(r, max) == r.state = "leased" /\ r.attempts > max /\ r.expired
ExpiredAny(r, max) == r.state = "leased" /\ r.expired

\* The reaper's predicate: the last allowed attempt, its lease run out.
ExpiredFinal(r, max) == r.state = "leased" /\ r.attempts = max /\ r.expired

\* A row as JobPromise sees it.
Promised(r) == CASE r.state = "pending" -> "queued"
                 [] r.state = "leased" -> "held"
                 [] OTHER -> r.state

LeaseRanOut(r) == [r EXCEPT !.expired = TRUE]
BackoffElapsed(r) == [r EXCEPT !.due = TRUE]
===============================================================================
