--------------------------- MODULE EmergencyUnlock ---------------------------
(***************************************************************************)
(* emergency_unlock.py and emergency_unlock_provider.py: a process of its  *)
(* own unlocks the lock of a connected account on a local request, beside  *)
(* the bot of ChasterConnection and on the same database.                  *)
(*                                                                         *)
(* A request is a sequence of audit rows, each in its own transaction,     *)
(* reads of the connection and calls to Chaster.  It may end anywhere: by  *)
(* an exception, which the listener answers with an error, or because the  *)
(* process is stopped.                                                     *)
(***************************************************************************)
EXTENDS ChasterConnection

CONSTANTS Requests  \* requests to unlock (bound)

VARIABLES
  requests,  \* the calls of request_unlock()
  audit      \* the rows each has written to domain_events

emergencyVars == <<requests, audit>>
vars == <<connectionVars, emergencyVars>>

\* EmergencyUnlockRequestStatus, each the name of the last event of its request.
Outcomes == {"auth_failed", "no_connection", "provider_succeeded", "provider_failed"}

Events == Outcomes \union {"request_accepted", "provider_attempted"}

RequestState ==
  [pc: {"idle", "looking", "unconnected", "decrypting", "marking", "announcing", "listing",
        "posting", "closing", "done", "broken"},
   user: Users \union {None}, tokens: Nat, outcome: Outcomes \union {None},
   unlocked: BOOLEAN]  \* Chaster has carried the unlock out (no code reads it)

NotRequested == [pc |-> "idle", user |-> None, tokens |-> 0, outcome |-> None, unlocked |-> FALSE]

Request(q, next) == requests' = [requests EXCEPT ![q] = next]

\* _audit()
Audit(q, event) == audit' = [audit EXCEPT ![q] = Append(@, event)]

\* The row of the outcome, and the answer that goes with it.
Conclude(q, outcome) ==
  /\ Audit(q, outcome)
  /\ Request(q, [requests[q] EXCEPT !.pc = "done", !.outcome = outcome])

----------------------------------------------------------------------------
(* EmergencyUnlockService.request_unlock() *)

\* _authenticate(): no secret is right where none is configured.
RefuseSecret(q, u) ==
  /\ requests[q].pc = "idle"
  /\ Audit(q, "auth_failed")
  /\ Request(q, [NotRequested EXCEPT !.pc = "done", !.user = u, !.outcome = "auth_failed"])
  /\ UNCHANGED connectionVars

AcceptSecret(q, u) ==
  /\ requests[q].pc = "idle"
  /\ Audit(q, "request_accepted")
  /\ Request(q, [NotRequested EXCEPT !.pc = "looking", !.user = u])
  /\ UNCHANGED connectionVars

LookUpConnection(q) ==
  /\ requests[q].pc = "looking"
  /\ Request(q, [requests[q] EXCEPT
                   !.pc = IF Connected(requests[q].user) THEN "decrypting" ELSE "unconnected"])
  /\ UNCHANGED <<connectionVars, audit>>

ReportUnconnected(q) ==
  /\ requests[q].pc = "unconnected"
  /\ Conclude(q, "no_connection")
  /\ UNCHANGED connectionVars

\* get_decrypted_access_token()
DecryptToken(q) ==
  /\ requests[q].pc = "decrypting"
  /\ \/ Request(q, [requests[q] EXCEPT !.pc = "announcing",
                                       !.tokens = Decrypted(requests[q].user)])
     \/ Request(q, [requests[q] EXCEPT !.pc = "marking"])
  /\ UNCHANGED <<connectionVars, audit>>

\* The token cannot be decrypted: the connection is marked and the exception goes on.
GiveUp(q) ==
  /\ requests[q].pc = "marking"
  /\ MarkNeedsReauthorization(requests[q].user)
  /\ Request(q, [requests[q] EXCEPT !.pc = "broken"])
  /\ UNCHANGED <<clock, links, callbacks, fetches, observations, chaster, audit>>

\* Mutant of Announce: the attempt is written down with its outcome only.
AnnounceNothing(q) ==
  /\ requests[q].pc = "announcing"
  /\ Request(q, [requests[q] EXCEPT !.pc = "listing"])
  /\ UNCHANGED <<connectionVars, audit>>

Announce(q) ==
  /\ requests[q].pc = "announcing"
  /\ Audit(q, "provider_attempted")
  /\ Request(q, [requests[q] EXCEPT !.pc = "listing"])
  /\ UNCHANGED connectionVars

Target(q) == issued[requests[q].tokens].account

\* attempt_unlock(): there must be exactly one active lock, of which the extractor says
\* that it may be unlocked.  The extractor wired today always raises, which is the second
\* disjunct; the first is for the day the fields of a lock are confirmed.
FindLock(q) ==
  /\ requests[q].pc = "listing"
  /\ \/ /\ locks[Target(q)] \notin {"no lock", "several"}
        /\ Request(q, [requests[q] EXCEPT !.pc = "posting"])
     \/ Request(q, [requests[q] EXCEPT !.pc = "closing", !.outcome = "provider_failed"])
  /\ UNCHANGED <<connectionVars, audit>>

\* POST /locks/{id}/emergency-unlock: only an answer that arrives and says so is a success.
PostUnlock(q) ==
  /\ requests[q].pc = "posting"
  /\ \/ /\ locks[Target(q)] = "locked"
        /\ locks' = [locks EXCEPT ![Target(q)] = "no lock"]
        /\ fetches' = [f \in Fetches |->
             [fetches[f] EXCEPT !.seen = @ \union {<<Target(q), "no lock">>}]]
        /\ \E answer \in {"provider_succeeded", "provider_failed"} :
             Request(q, [requests[q] EXCEPT !.pc = "closing", !.unlocked = TRUE,
                                            !.outcome = answer])
     \/ /\ Request(q, [requests[q] EXCEPT !.pc = "closing", !.outcome = "provider_failed"])
        /\ UNCHANGED <<locks, fetches>>
  /\ UNCHANGED <<clock, links, connections, callbacks, observations, issued, audit>>

ReportOutcome(q) ==
  /\ requests[q].pc = "closing"
  /\ Conclude(q, requests[q].outcome)
  /\ UNCHANGED connectionVars

\* An exception, answered by the listener with an internal error, or the process's end.
Break(q) ==
  /\ requests[q].pc \notin {"idle", "done", "broken"}
  /\ Request(q, [requests[q] EXCEPT !.pc = "broken"])
  /\ UNCHANGED <<connectionVars, audit>>

RequestStep(q) ==
  \/ \E u \in Users : RefuseSecret(q, u) \/ AcceptSecret(q, u)
  \/ LookUpConnection(q) \/ ReportUnconnected(q) \/ DecryptToken(q) \/ GiveUp(q)
  \/ Announce(q) \/ FindLock(q) \/ PostUnlock(q) \/ ReportOutcome(q) \/ Break(q)

Init ==
  /\ ConnectionInit
  /\ requests = [q \in Requests |-> NotRequested]
  /\ audit = [q \in Requests |-> <<>>]

Next ==
  \/ ConnectionNext /\ UNCHANGED emergencyVars
  \/ \E q \in Requests : RequestStep(q)

Spec == Init /\ [][Next]_vars

----------------------------------------------------------------------------
(* Properties *)

\* Types of both parts.
TypeOK ==
  /\ ConnectionTypeOK
  /\ requests \in [Requests -> RequestState]
  /\ audit \in [Requests -> Seq(Events)]
  /\ \A q \in Requests :
       requests[q].pc \in {"announcing", "listing", "posting"} =>
         requests[q].tokens \in DOMAIN issued

\* emergency_unlock.py:71: the status of a request and the last event of its audit "can
\* never disagree"; and however a request ends, a lock that was unlocked has been announced
\* in the audit before, and only an unlock that happened is called a success.  (The
\* converse does not hold: an unlock whose answer is lost is audited as failed.)
AuditTellsWhatHappened ==
  \A q \in Requests :
    /\ requests[q].pc = "done" => /\ audit[q] # <<>>
                                  /\ audit[q][Len(audit[q])] = requests[q].outcome
    /\ requests[q].unlocked => /\ Len(audit[q]) >= 2
                               /\ audit[q][1] = "request_accepted"
                               /\ audit[q][2] = "provider_attempted"
    /\ \A i \in DOMAIN audit[q] :
         audit[q][i] = "provider_succeeded" => requests[q].unlocked

=============================================================================
