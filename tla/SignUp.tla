--------------------------------- MODULE SignUp --------------------------------
(***************************************************************************)
(* Registration by a code sent by mail, for one e-mail address:            *)
(* RegisterUserUseCase.execute, the mail queue and OTPService.verifyOtp.   *)
(*                                                                         *)
(* Redis holds one record for the address: the code, how often a code was  *)
(* sent, how often one was tried, and when the next may be sent.  A        *)
(* handler reads it, awaits, and writes the whole record back.  The mail   *)
(* is a job of the queue, tried once.  verifyOtp has no route at present   *)
(* (the one of AuthController is commented out); it is modelled as it      *)
(* would run.  Codes are drawn at random; here every draw is a new one.    *)
(*                                                                         *)
(* The histories: mails counts the codes when they are queued, not when    *)
(* the record is stored, and apart from the record; stale marks those who  *)
(* hold a record that has been replaced.                                   *)
(***************************************************************************)
EXTENDS Naturals, FiniteSets

CONSTANTS Handlers,      \* the requests in flight at the same time
          LimitSend,     \* limitSendEmail (5)
          LimitCheck,    \* limitCheckEmail (5)
          Life,          \* ticks the record lives (TTL_OTP, a day)
          MaxCodes,      \* bound: codes drawn
          MaxTime,       \* bound: ticks (a tick is the minute between two codes)
          MaxClients     \* connections that Redis accepts; scanlAlKeys opens one
                         \* for each call and closes none

\* What is assumed of them (by Registration).
SignUpConstants == /\ {LimitSend, LimitCheck, Life, MaxCodes, MaxTime, MaxClients} \subseteq Nat
                   /\ IsFiniteSet(Handlers)

VARIABLES record,        \* the record, or NoRecord
          drawn,         \* codes drawn so far: 1..drawn
          queue,         \* codes of the jobs that wait
          inbox,         \* codes that have arrived
          lost,          \* codes whose job failed or was never queued
          clients,       \* connections opened by scanlAlKeys
          time,          \* ticks since the start
          handling,      \* [Handlers -> what the request is in the middle of]
          mails,         \* history of the codes mailed on the present record:
                         \*   sent, how many were queued (the first one, whose
                         \*   mail follows its SET, is counted with that SET);
                         \*   cut, how many of their requests ended in between
                         \*   the mail and the SET;
                         \*   due, a minute after the last one was queued (the
                         \*   first one asked for), 0 if its request was cut
          tried,         \* history: wrong codes tried on the code in it
          stale,         \* history: requests that read a record since replaced
          raced          \* history: has such a request written the present record?

signUpVars == <<record, drawn, queue, inbox, lost, clients, time, handling,
                mails, tried, stale, raced>>

NoRecord == [otp |-> 0]
Never == MaxTime + Life + 1
Idle == [at |-> "idle"]
NoMails == [sent |-> 0, cut |-> 0, due |-> 0]

InFlight == {h \in Handlers : handling[h] # Idle}

\* The requests that have mailed a code again and not stored it.
Midway == {h \in Handlers : handling[h].at = "store"}

Init == /\ record = NoRecord
        /\ drawn = 0 /\ queue = {} /\ inbox = {} /\ lost = {}
        /\ clients = 0 /\ time = 0
        /\ handling = [h \in Handlers |-> Idle]
        /\ mails = NoMails /\ tried = 0 /\ stale = {} /\ raced = FALSE

Goto(h, s) == handling' = [handling EXCEPT ![h] = s]

\* What was mailed and tried is only told as long as no write was stale.
Tell(m) == mails' = IF raced THEN NoMails ELSE m

\* These requests end midway.
Cut(hs) == Tell(IF hs = {} THEN mails
                ELSE [sent |-> mails.sent, cut |-> mails.cut + Cardinality(hs), due |-> 0])

\* A SET.
Write(h, rec, m, n) == /\ record' = rec
                       /\ stale' = InFlight \ {h}
                       /\ raced' = (raced \/ h \in stale)
                       /\ mails' = IF raced' THEN NoMails ELSE m
                       /\ tried' = IF raced' THEN 0 ELSE n

\* scanlAlKeys: a connection for one scan, never closed.
Scan == clients < MaxClients /\ clients' = clients + 1

-----------------------------------------------------------------------------
(* execute                                                                 *)

\* findEmail found nobody (registered is the caller's); the code is drawn, and
\* the keys are scanned on a connection of their own.  The minute of a first
\* code begins here, before it is stored.
Register(h, registered) ==
    /\ handling[h] = Idle
    /\ ~registered
    /\ drawn < MaxCodes
    /\ drawn' = drawn + 1
    /\ Scan
    /\ Goto(h, IF record = NoRecord
               THEN [at |-> "first", code |-> drawn', next |-> time + 1]
               ELSE [at |-> "read", code |-> drawn'])
    /\ stale' = stale \ {h}
    /\ UNCHANGED <<record, queue, inbox, lost, time, mails, tried, raced>>

StoreFirst_NotMailed(h) ==
    /\ handling[h].at = "first"
    /\ Write(h, [otp |-> handling[h].code, sends |-> 1, checks |-> 1,
                 next |-> handling[h].next, until |-> time + Life],
                [sent |-> 1, cut |-> 0, due |-> handling[h].next], 0)
    /\ Goto(h, Idle)
    /\ UNCHANGED <<drawn, queue, inbox, lost, clients, time>>

StoreFirst(h) ==
    /\ handling[h].at = "first"
    /\ Write(h, [otp |-> handling[h].code, sends |-> 1, checks |-> 1,
                 next |-> handling[h].next, until |-> time + Life],
                [sent |-> 1, cut |-> 0, due |-> handling[h].next], 0)
    /\ Goto(h, [at |-> "mail", code |-> handling[h].code])
    /\ UNCHANGED <<drawn, queue, inbox, lost, clients, time>>

MailFirst(h) ==
    /\ handling[h].at = "mail"
    /\ queue' = queue \cup {handling[h].code}
    /\ Goto(h, Idle)
    /\ UNCHANGED <<record, drawn, inbox, lost, clients, time, mails, tried, stale, raced>>

\* GET and the two checks; a record that has expired since the scan is a
\* TypeError, and nothing has been written in any of the refusals.
ReadRecord_NoLimit(h) ==
    /\ handling[h].at = "read"
    /\ Goto(h, IF record # NoRecord /\ time >= record.next
               THEN [at |-> "mail again", code |-> handling[h].code, seen |-> record]
               ELSE Idle)
    /\ stale' = stale \ {h}
    /\ UNCHANGED <<record, drawn, queue, inbox, lost, clients, time, mails, tried, raced>>

ReadRecord_AtOnce(h) ==
    /\ handling[h].at = "read"
    /\ Goto(h, IF record # NoRecord /\ record.sends <= LimitSend
               THEN [at |-> "mail again", code |-> handling[h].code, seen |-> record]
               ELSE Idle)
    /\ stale' = stale \ {h}
    /\ UNCHANGED <<record, drawn, queue, inbox, lost, clients, time, mails, tried, raced>>

ReadRecord(h) ==
    /\ handling[h].at = "read"
    /\ Goto(h, IF record # NoRecord /\ record.sends <= LimitSend /\ time >= record.next
               THEN [at |-> "mail again", code |-> handling[h].code, seen |-> record]
               ELSE Idle)
    /\ stale' = stale \ {h}
    /\ UNCHANGED <<record, drawn, queue, inbox, lost, clients, time, mails, tried, raced>>

\* The job is queued before the code is stored.
MailAgain(h) ==
    /\ handling[h].at = "mail again"
    /\ queue' = queue \cup {handling[h].code}
    /\ handling' = [handling EXCEPT ![h].at = "store"]
    /\ Tell([sent |-> mails.sent + 1, cut |-> mails.cut, due |-> time + 1])
    /\ UNCHANGED <<record, drawn, inbox, lost, clients, time, tried, stale, raced>>

StoreAgain_KeepsCount(h) ==
    /\ handling[h].at = "store"
    /\ Write(h, [otp |-> handling[h].code, sends |-> handling[h].seen.sends, checks |-> 1,
                 next |-> time + 1, until |-> time + Life], mails, 0)
    /\ Goto(h, Idle)
    /\ UNCHANGED <<drawn, queue, inbox, lost, clients, time>>

StoreAgain(h) ==
    /\ handling[h].at = "store"
    /\ Write(h, [otp |-> handling[h].code, sends |-> handling[h].seen.sends + 1, checks |-> 1,
                 next |-> time + 1, until |-> time + Life], mails, 0)
    /\ Goto(h, Idle)
    /\ UNCHANGED <<drawn, queue, inbox, lost, clients, time>>

\* An error of the queue or of Redis ends the request where it is.  One that is
\* midway leaves a code mailed, and a record that knows nothing of it.
RegisterFails(h) ==
    /\ handling[h].at \in {"first", "mail", "read", "mail again", "store"}
    /\ lost' = lost \cup ({handling[h].code} \ (queue \cup inbox))
    /\ Goto(h, Idle)
    /\ Cut(Midway \cap {h})
    /\ UNCHANGED <<record, drawn, queue, inbox, clients, time, tried, stale, raced>>

-----------------------------------------------------------------------------
(* The mail queue: one attempt, and a job that failed is removed.          *)

Deliver(c) ==
    /\ c \in queue
    /\ queue' = queue \ {c}
    /\ inbox' = inbox \cup {c}
    /\ UNCHANGED <<record, drawn, lost, clients, time, handling, mails, tried, stale, raced>>

MailFails(c) ==
    /\ c \in queue
    /\ queue' = queue \ {c}
    /\ lost' = lost \cup {c}
    /\ UNCHANGED <<record, drawn, inbox, clients, time, handling, mails, tried, stale, raced>>

-----------------------------------------------------------------------------
(* verifyOtp                                                               *)

\* The scan, the GET and the checks.  The right code leads to
\* createUserWithEmailOnly, which the model of the user refuses (no ascii_name,
\* no phone, a status that is none): the request fails, the record stays.
Verify(h, right) ==
    /\ handling[h] = Idle
    /\ Scan
    /\ IF record # NoRecord /\ record.checks <= LimitCheck /\ ~right
       THEN Goto(h, [at |-> "wrong", seen |-> record])
       ELSE UNCHANGED handling
    /\ stale' = stale \ {h}
    /\ UNCHANGED <<record, drawn, queue, inbox, lost, time, mails, tried, raced>>

\* SET without EX: the record no longer expires.
StoreWrong_NotCounted(h) ==
    /\ handling[h].at = "wrong"
    /\ Write(h, [handling[h].seen EXCEPT !.until = Never], mails, tried + 1)
    /\ Goto(h, Idle)
    /\ UNCHANGED <<drawn, queue, inbox, lost, clients, time>>

StoreWrong(h) ==
    /\ handling[h].at = "wrong"
    /\ Write(h, [handling[h].seen EXCEPT !.checks = @ + 1, !.until = Never], mails, tried + 1)
    /\ Goto(h, Idle)
    /\ UNCHANGED <<drawn, queue, inbox, lost, clients, time>>

-----------------------------------------------------------------------------

\* Redis drops the record when its time is over.
Tick ==
    /\ time < MaxTime
    /\ time' = time + 1
    /\ IF record # NoRecord /\ record.until <= time'
       THEN /\ record' = NoRecord /\ mails' = NoMails /\ tried' = 0
            /\ stale' = InFlight /\ raced' = FALSE
       ELSE UNCHANGED <<record, mails, tried, stale, raced>>
    /\ UNCHANGED <<drawn, queue, inbox, lost, clients, handling>>

\* The process dies: its connections close, the jobs stay in Redis.
Crash ==
    /\ handling' = [h \in Handlers |-> Idle]
    /\ clients' = 0
    /\ lost' = lost \cup ({handling[h].code : h \in {g \in Handlers :
                  handling[g].at \in {"first", "mail", "read", "mail again", "store"}}} \ (queue \cup inbox))
    /\ Cut(Midway)
    /\ UNCHANGED <<record, drawn, queue, inbox, time, tried, stale, raced>>

SignUp(h) == StoreFirst(h) \/ MailFirst(h) \/ ReadRecord(h) \/ MailAgain(h) \/ StoreAgain(h)
               \/ StoreWrong(h) \/ RegisterFails(h)

Next(registered) ==
    \/ \E h \in Handlers : \/ Register(h, registered) \/ SignUp(h)
                           \/ \E right \in BOOLEAN : Verify(h, right)
    \/ \E c \in queue : Deliver(c) \/ MailFails(c)
    \/ Tick \/ Crash

-----------------------------------------------------------------------------

\* Never are more codes mailed than the record counts, but for those of requests
\* that are midway or ended there, and the wrong codes are counted one by one;
\* both counts keep their limits.  Unless a request has written back a record
\* that was replaced since it read it: then either can be too low.
CountersAreTrue ==
    record # NoRecord /\ ~raced =>
        /\ mails.sent <= record.sends + Cardinality(Midway) + mails.cut
        /\ record.sends <= LimitSend + 1
        /\ record.checks = tried + 1 /\ tried <= LimitCheck

\* A code is mailed again no sooner than a minute after the one before it, unless
\* that one is midway or its request was cut there, or a write was stale.
MinutePasses ==
    \A h \in Handlers \ stale :
        handling[h].at = "mail again" /\ handling'[h].at = "store" /\ ~raced /\ Midway = {}
            => time >= mails.due

\* A code that can be verified was sent, is in the queue, is about to be put
\* there, or was lost with its job or its process: none is stored and forgotten.
StoredCodeWasSent ==
    record # NoRecord =>
       \/ record.otp \in queue \cup inbox \cup lost
       \/ \E h \in Handlers : handling[h].at = "mail" /\ handling[h].code = record.otp
=============================================================================
