----------------------------- MODULE CanvasHttp -----------------------------
(***************************************************************************)
(* The Canvas phase of a sync run, as the clock sees it: every request the *)
(* run makes of Canvas, in order, with its retries, its pages, the pauses  *)
(* of the rate-limit governor and the deadlines of the run's budget        *)
(* (canvas/http.ts, canvas/rate-limit.ts, canvas/classify-error.ts,        *)
(* sync/budget.ts, and syncBody of sync/run.ts up to the archive stage).   *)
(*                                                                         *)
(* Time is in half seconds, the unit of the first backoff, counted from    *)
(* the start of the run; the jitter of a quarter of a second is left out,  *)
(* and the one millisecond a late request is given counts as none.  The    *)
(* database calls between two requests take no time here.  A part of the   *)
(* run is the validation of the token, the announcements of all courses,   *)
(* or one context; what a page holds is left out, how many were read is    *)
(* not.                                                                    *)
(***************************************************************************)
EXTENDS Integers, Sequences, FiniteSetsExt

CONSTANTS Enabled,       \* how many contexts are enabled
          Calls,         \* the listings read for one context
          Pages,         \* the pages Canvas has of a listing: a set of lengths
          MaxPages,      \* DEFAULT_MAX_PAGES
          MaxAttempts,   \* DEFAULT_MAX_ATTEMPTS
          Timeout,       \* DEFAULT_TIMEOUT_MS
          Latency,       \* how long an answer may take
          RetryAfter,    \* the waits Canvas may ask for
          MaxWait,       \* backoffMs: the longest it is granted
          MaxBackoff,    \* backoffMs: and the longest wait when it asks for none
          Readings,      \* the x-rate-limit-remaining Canvas may send
          CourseTime,    \* budgets.courseMs
          WorkTime       \* budgets.runMs - budgets.reserveMs

None == -1                       \* no deadline, no header, no answer yet

HttpConstants ==
  /\ Enabled \in Nat /\ Calls \in Nat \ {0} /\ MaxAttempts \in Nat \ {0}
  /\ MaxPages \in Nat \ {0} /\ Pages \subseteq Nat \ {0}
  /\ {Timeout, CourseTime, WorkTime, MaxWait} \subseteq Nat /\ MaxBackoff \in 1..64
  /\ Latency \cup RetryAfter \cup Readings \subseteq Nat

VARIABLES now,         \* budgetNow() since the run started
          part,        \* 0 the token, 1 the announcements, 1 + i context i
          call,        \* which of the part's calls is being made
          mode,        \* "gate", "sent", "answered", "between", "over"
          deadline,    \* CanvasHttp.deadline
          size,        \* the pages the listing being read has
          page,        \* list: pageNumber
          attempt,     \* request: attempt
          last,        \* request: lastRetryable, as its code, or "none"
          answer,      \* what the call returned: kind, code, pages read
          ceiling,     \* RateLimitGovernor.ceiling
          remaining,   \* RateLimitGovernor.remaining
          deferred     \* contexts left for the next run

vars == <<now, part, call, mode, deadline, size, page, attempt, last, answer,
          ceiling, remaining, deferred>>

Ok(n) == [kind |-> "ok", code |-> "none", pages |-> n]
Nothing == [kind |-> "none", code |-> "none", pages |-> 0]
Denied == [kind |-> "denied_or_absent", code |-> "none", pages |-> 0]
Error(code) == [kind |-> "error", code |-> code, pages |-> 0]

LastPart == Enabled + 1

-----------------------------------------------------------------------------
(***************************************************************************)
(* The governor: a bucket below a fifth of the largest reading (never less *)
(* than 700) is waited for, one second to ten.                             *)
(***************************************************************************)
Threshold == Max({ceiling, 700}) \div 5
ShouldPause == ceiling # None /\ remaining # None /\ remaining < Threshold
PauseTime == IF ShouldPause
             THEN (2 * Threshold + 18 * (Threshold - remaining)) \div Threshold
             ELSE 0
LongestPause == 20

(* The token has no deadline: its attempts fit in the work time, by the    *)
(* constants alone.                                                        *)
LongestWait == Max({MaxWait, MaxBackoff})
TokenFits ==
  (MaxAttempts - 1) * (LongestPause + Timeout + LongestWait) + Timeout
    < WorkTime + LongestPause

Observe(r) ==
  IF r = None THEN UNCHANGED <<ceiling, remaining>>
  ELSE /\ remaining' = r
       /\ ceiling' = Max({ceiling, r})

(***************************************************************************)
(* classifyResponse: a 403 is a refusal or a full bucket, told apart by    *)
(* the body and the header.                                                *)
(***************************************************************************)
Response ==
  [status: {200}, body: {"json", "junk"}, reading: Readings \cup {None},
   after: {None}]
  \cup [status: {403}, body: {"no", "rate limit"}, reading: Readings \cup {None},
        after: RetryAfter \cup {None}]
  \cup [status: {401, 404, 418}, body: {"no"}, reading: Readings, after: {None}]
  \cup [status: {408, 429, 500}, body: {"no"}, reading: Readings,
        after: RetryAfter \cup {None}]

Limited(r) == \/ r.status = 429
              \/ r.status = 403 /\ (r.body = "rate limit" \/ r.reading = 0)

RetryCode(r) == CASE Limited(r) -> "rate_limited"
                  [] r.status = 408 -> "timeout"
                  [] r.status = 500 -> "server"
                  [] OTHER -> "none"

Final(r) == CASE r.status = 401 -> Error("auth")
              [] r.status \in {403, 404} -> Denied
              [] OTHER -> Error("unknown")

-----------------------------------------------------------------------------
(***************************************************************************)
(* Waiting for a retry: not past the deadline.                             *)
(***************************************************************************)
Doubled == <<1, 2, 4, 8, 16, 32>>
Backoff(after) == IF after # None THEN Min({after, MaxWait})
                  ELSE IF attempt <= Len(Doubled) THEN Min({MaxBackoff, Doubled[attempt]})
                  ELSE MaxBackoff

\* Mutant: a retry is waited for whatever time is left.
FitsAlways(time) == TRUE
Fits(time) == deadline = None \/ time < deadline

\* request and list return: their own variables are gone.
Return(result) == /\ answer' = result
                  /\ mode' = "answered"
                  /\ page' = 1 /\ attempt' = 1 /\ last' = "none"

\* The code is kept and the request sent again, or the failure is returned.
Retry(at, code, after) ==
  IF attempt < MaxAttempts /\ Fits(at + Backoff(after))
  THEN /\ now' = at + Backoff(after)
       /\ attempt' = attempt + 1
       /\ last' = code
       /\ mode' = "gate"
       /\ UNCHANGED <<page, answer>>
  ELSE now' = at /\ Return(Error(code))

(***************************************************************************)
(* The head of request's loop: past the deadline nothing is sent; then the *)
(* governor may pause, and only afterwards is the request sent.            *)
(***************************************************************************)
Gate ==
  /\ mode = "gate"
  /\ IF deadline # None /\ now >= deadline
     THEN /\ Return(Error(IF last = "none" THEN "timeout" ELSE last))
          /\ UNCHANGED now
     ELSE /\ now' = now + PauseTime
          /\ mode' = "sent"
          /\ UNCHANGED <<page, attempt, last, answer>>
  /\ UNCHANGED <<part, call, deadline, size, ceiling, remaining, deferred>>

\* AbortSignal.timeout: the request's own, cut to what the deadline leaves.
Limit == IF deadline = None THEN Timeout
         ELSE Max({0, Min({Timeout, deadline - now})})

\* Mutant: a listing cut at the page limit is returned as if it were whole.
TurnPageCut ==
  IF page = size \/ page = MaxPages THEN Return(Ok(page))
  ELSE /\ page' = page + 1
       /\ attempt' = 1
       /\ last' = "none"
       /\ mode' = "gate"
       /\ UNCHANGED answer

\* list: the next page, the whole, or a refusal to read more than MaxPages.
TurnPage ==
  CASE page = size -> Return(Ok(page))
    [] page < size /\ page = MaxPages -> Return(Error("unknown"))
    [] OTHER -> /\ page' = page + 1
                /\ attempt' = 1
                /\ last' = "none"
                /\ mode' = "gate"
                /\ UNCHANGED answer

Respond(r, time) ==
  /\ mode = "sent"
  /\ time <= Limit
  /\ Observe(r.reading)
  /\ CASE RetryCode(r) # "none" -> Retry(now + time, RetryCode(r), r.after)
       [] r.status = 200 /\ r.body = "json" -> now' = now + time /\ TurnPage
       [] r.status = 200 /\ r.body # "json" ->
            now' = now + time /\ Return(Error("malformed"))
       [] OTHER -> now' = now + time /\ Return(Final(r))
  /\ UNCHANGED <<part, call, deadline, size, deferred>>

\* No answer: the network fails at once, or the request's time runs out.
NoAnswer(code) ==
  /\ mode = "sent"
  /\ Retry(now + (IF code = "timeout" THEN Limit ELSE 0), code, None)
  /\ UNCHANGED <<part, call, deadline, size, ceiling, remaining, deferred>>

-----------------------------------------------------------------------------
(***************************************************************************)
(* The run: the token, the announcements, then one context after another.  *)
(***************************************************************************)
DeadlineFor == Min({now + CourseTime, WorkTime})

Begin(n) == /\ size' = n
            /\ mode' = "gate"
            /\ answer' = Nothing
            /\ UNCHANGED <<page, attempt, last>>

\* The next call of the same part, under the part's own deadline.
NextCall(n) ==
  /\ mode = "answered"
  /\ part > 1 /\ call < Calls
  /\ call' = call + 1
  /\ Begin(n)
  /\ UNCHANGED <<now, part, deadline, ceiling, remaining, deferred>>

\* setDeadline(null) after a part; a token that cannot be validated ends it.
EndPart ==
  /\ mode = "answered"
  /\ part < 2 \/ call = Calls
  /\ deadline' = None
  /\ mode' = IF part = LastPart \/ (part = 0 /\ answer.kind # "ok")
             THEN "over" ELSE "between"
  /\ answer' = Nothing
  /\ UNCHANGED <<now, part, call, size, page, attempt, last, ceiling,
                 remaining, deferred>>

\* A part starts while there is work time; a context without it is deferred.
StartPart(n) ==
  /\ mode = "between"
  /\ part' = part + 1
  /\ IF part > 0 /\ now >= WorkTime
     THEN /\ deferred' = deferred \cup {part}
          /\ mode' = IF part' = LastPart THEN "over" ELSE "between"
          /\ UNCHANGED <<call, deadline, size, page, attempt, last, answer>>
     ELSE /\ deadline' = DeadlineFor
          /\ call' = 1
          /\ Begin(n)
          /\ UNCHANGED deferred
  /\ UNCHANGED <<now, ceiling, remaining>>

Init ==
  /\ now = 0 /\ part = 0 /\ call = 1 /\ mode = "gate" /\ deadline = None
  /\ size = 1 /\ page = 1 /\ attempt = 1 /\ last = "none" /\ answer = Nothing
  /\ ceiling = None /\ remaining = None /\ deferred = {}

Next ==
  \/ Gate
  \/ \E r \in Response, time \in Latency : Respond(r, time)
  \/ \E code \in {"network", "timeout"} : NoAnswer(code)
  \/ \E n \in Pages : NextCall(n) \/ StartPart(n)
  \/ EndPart

Spec == Init /\ [][Next]_vars

-----------------------------------------------------------------------------
HttpTypeOK ==
  /\ now \in Nat
  /\ part \in 0..LastPart /\ call \in 1..Calls
  /\ mode \in {"gate", "sent", "answered", "between", "over"}
  /\ deadline \in Nat \cup {None}
  /\ page \in 1..MaxPages /\ attempt \in 1..MaxAttempts
  /\ {ceiling, remaining} \subseteq Nat \cup {None}
  /\ deferred \subseteq 1..Enabled

(***************************************************************************)
(* A listing that was answered "ok" is the whole listing (http.ts:112-114, *)
(* SPEC.md section 2.2: "looks complete and isn't"), whatever failed, was  *)
(* retried or was cut short on the way.                                    *)
(***************************************************************************)
WholeOrNothing ==
  mode = "answered" /\ answer.kind = "ok" => answer.pages = size

(***************************************************************************)
(* A slow course fails alone (D-77, http.ts:85-89): the requests of a part *)
(* end at its deadline and those of the run at the work deadline, but for  *)
(* the one pause of the governor that starts before it, so the reserve for *)
(* alerts, messages, the lock and the last ping stays whole.  The pause is *)
(* taken after the deadline was looked at (http.ts:194-198), so a request  *)
(* may start late, though http.ts:75 says none does.                       *)
(***************************************************************************)
KeepsToItsDeadline ==
  /\ deadline # None => now < deadline + LongestPause
  /\ now < WorkTime + LongestPause
=============================================================================
