----------------------------- MODULE MailWindow -----------------------------
(***************************************************************************)
(* send_email (notify/email.py) and the rate limiter of the process it     *)
(* runs in: a deque of times, cut to the last hour whenever a mail is to   *)
(* be sent.  A mail is recorded when the block that talks to the server    *)
(* ends without an exception, and then, and only then, reported as sent.   *)
(* A mail that the limiter drops or the server refuses is lost.  One that  *)
(* the server has taken when its reply is lost, or when QUIT fails, is on  *)
(* its way, but reported as failed and not recorded: such mails come on    *)
(* top of whatever the limiter limits.                                     *)
(***************************************************************************)
EXTENDS Naturals, Sequences

CONSTANTS
  Limit,    \* notify_rate_limit_per_hour
  Hour,     \* 3600 seconds, in ticks
  MaxTime   \* bound: ticks in one behaviour

ASSUME MailBounds == Limit \in Nat /\ Hour \in Nat \ {0} /\ MaxTime \in Nat

VARIABLES
  now,     \* the clock
  log,     \* _SEND_LOG
  sent     \* the times of all mails send_email returned True for (history)

mailVars == <<now, log, sent>>

MailTypeOK ==
  /\ now \in 0 .. MaxTime
  /\ log \in Seq(0 .. MaxTime) /\ sent \in Seq(0 .. MaxTime)

\* _SEND_LOG of a process that starts now.
MailStart == log' = <<>> /\ sent' = <<>>

\* Plausible bug: an entry is dropped when it is exactly an hour old.
OldAtAnHour(t) == now - t >= Hour

Old(t) == now - t > Hour

\* _within_rate_limit drops entries from the left, until one is not old.
Pruned ==
  LET n == CHOOSE n \in 0 .. Len(log) : /\ \A k \in 1 .. n : Old(log[k])
                                        /\ n < Len(log) => ~Old(log[n + 1])
  IN  SubSeq(log, n + 1, Len(log))

WithinLimit == Len(Pruned) < Limit

\* A mail that is configured and within the limit is handed to the server.  It
\* is recorded and reported as sent; or it is not, because it was over the limit
\* or the block raised, before or after the server took it.
Send ==
  /\ \/ /\ WithinLimit
        /\ log'  = Append(Pruned, now)
        /\ sent' = Append(sent, now)
     \/ log' = Pruned /\ UNCHANGED sent
  /\ UNCHANGED now

Tick ==
  /\ now < MaxTime
  /\ now' = now + 1
  /\ UNCHANGED <<log, sent>>

\* However the mails are spread, no hour sees more than Limit mails that
\* send_email reports as sent: the window slides, it is not a counter per clock
\* hour, and mails that were dropped or failed in between do not shift it.
HourlyLimit ==
  \A n \in DOMAIN sent :
    n > Limit => sent[n] - sent[n - Limit] > Hour
=============================================================================
