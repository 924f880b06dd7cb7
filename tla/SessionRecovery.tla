-------------------------- MODULE SessionRecovery --------------------------
(***************************************************************************)
(* Sessions that outlive the server: SessionRecoveryManager and            *)
(* SessionPersistence of session_recovery.py.  The queue of writes holds   *)
(* the session objects themselves, so a write stores what the session has  *)
(* become meanwhile.  A token names one session for ever.                  *)
(*                                                                         *)
(* load_session checks a checksum that was made of another text (indented) *)
(* than the one it is compared with (compact, keys sorted): the two never  *)
(* agree, and each session comes back from the newest of its backups.      *)
(***************************************************************************)
EXTENDS Naturals, Sequences, SequencesExt


CONSTANTS
  SSTokens,
  SSUpdates,  \* bound: updates of a session
  SSTimes     \* bound: how often session_timeout passes

ASSUME SSAssumption == SSUpdates \in Nat /\ SSTimes \in Nat

VARIABLES
  ssNow,      \* how often the timeout has passed
  ssPhase,    \* "up", "persisting", "final" (the two flushes of a stop) or "off"
  ssSession,  \* the objects: current_db, as the count of its updates, and last_activity
  ssActive,   \* _active_sessions
  ssQueue,    \* _write_queue
  ssUpdated,  \* sessions whose update has left the lock and is not queued yet
  ssDeleting, \* sessions that have left _active_sessions and whose file is still there
  ssFlush,    \* of the flush thread and of stop(): the sessions taken from the queue, what
              \* is being done for the first, and its text
  ssTemp, ssFile,
  ssBackup,   \* the newest copy
  ssUsed,     \* tokens given out
  ssOrderly,  \* history: the last stop was not a crash, and met no write of the flush thread
  ssGone      \* history: sessions that were deleted while no write of theirs was left

ssVars == <<ssNow, ssPhase, ssSession, ssActive, ssQueue, ssUpdated, ssDeleting, ssFlush, ssTemp,
            ssFile, ssBackup, ssUsed, ssOrderly, ssGone>>

SSDisk == <<ssTemp, ssFile, ssBackup>>

SSText(db, seen) == [db |-> db, seen |-> seen]

SSNone == SSText(0, SSTimes + 1)

SSIdle == [todo |-> <<>>, at |-> "idle", text |-> SSNone]

SSInit ==
  /\ ssNow = 0 /\ ssPhase = "up"
  /\ ssSession = [t \in SSTokens |-> SSNone]
  /\ ssActive = {} /\ ssQueue = <<>> /\ ssUpdated = {} /\ ssDeleting = {}
  /\ ssFlush = [f \in {"loop", "stop"} |-> SSIdle]
  /\ ssTemp = [t \in SSTokens |-> SSNone] /\ ssFile = ssTemp /\ ssBackup = ssTemp
  /\ ssUsed = {} /\ ssOrderly = TRUE /\ ssGone = {}

-----------------------------------------------------------------------------
(* Sessions. *)

\* Mutant of SSQueued: the entry before it stays.
SSQueuedTwice(queue, t) == Append(queue, t)

SSQueued(queue, t) == Append(SelectSeq(queue, LAMBDA u : u # t), t)

SSCreate(t) ==
  /\ ssPhase = "up" /\ t \notin ssUsed
  /\ ssUsed' = ssUsed \cup {t}
  /\ ssSession' = [ssSession EXCEPT ![t] = SSText(0, ssNow)]
  /\ ssActive' = ssActive \cup {t}
  /\ ssQueue' = SSQueued(ssQueue, t)
  /\ UNCHANGED <<ssNow, ssPhase, ssUpdated, ssDeleting, ssFlush, SSDisk, ssOrderly, ssGone>>

\* get_session, which every check of a privilege calls: also a session that has expired, and
\* was not cleaned up yet, is active again.
SSGet(t) ==
  /\ ssPhase = "up" /\ t \in ssActive
  /\ ssSession' = [ssSession EXCEPT ![t].seen = ssNow]
  /\ ssQueue' = SSQueued(ssQueue, t)
  /\ UNCHANGED <<ssNow, ssPhase, ssActive, ssUpdated, ssDeleting, ssFlush, SSDisk, ssUsed, ssOrderly, ssGone>>

\* update_session changes the session under the lock ...
SSUpdate(t) ==
  /\ ssPhase = "up" /\ t \in ssActive \ ssUpdated /\ ssSession[t].db < SSUpdates
  /\ ssSession' = [ssSession EXCEPT ![t] = SSText(@.db + 1, ssNow)]
  /\ ssUpdated' = ssUpdated \cup {t}
  /\ UNCHANGED <<ssNow, ssPhase, ssActive, ssQueue, ssDeleting, ssFlush, SSDisk, ssUsed, ssOrderly, ssGone>>

\* ... and queues it after that.
SSUpdateQueued(t) ==
  /\ ssPhase # "off" /\ t \in ssUpdated
  /\ ssUpdated' = ssUpdated \ {t}
  /\ ssQueue' = SSQueued(ssQueue, t)
  /\ UNCHANGED <<ssNow, ssPhase, ssSession, ssActive, ssDeleting, ssFlush, SSDisk, ssUsed, ssOrderly, ssGone>>

\* end_session, and the clean-up of the sessions that have expired: the write queue keeps them.
SSRemove(tokens) ==
  /\ tokens # {} /\ ssPhase # "off"
  /\ ssActive' = ssActive \ tokens /\ ssDeleting' = ssDeleting \cup tokens
  /\ UNCHANGED <<ssNow, ssPhase, ssSession, ssQueue, ssUpdated, ssFlush, SSDisk, ssUsed, ssOrderly, ssGone>>

SSEnd(t) == ssPhase = "up" /\ t \in ssActive /\ SSRemove({t})

SSCleanup == SSRemove({t \in ssActive : ssSession[t].seen < ssNow})

\* Writes of the session that are still to come.
SSWriting(t) ==
  \/ t \in ssUpdated \/ t \in ToSet(ssQueue)
  \/ \E f \in DOMAIN ssFlush : t \in ToSet(ssFlush[f].todo)

\* Mutant of SSDeleted: the file stays.
SSDeletedNot(t) == ssFile

SSDeleted(t) == [ssFile EXCEPT ![t] = SSNone]

\* delete_session; the backups stay.
SSDelete(t) ==
  /\ ssPhase # "off" /\ t \in ssDeleting
  /\ ssDeleting' = ssDeleting \ {t}
  /\ ssFile' = SSDeleted(t)
  /\ ssGone' = IF SSWriting(t) THEN ssGone ELSE ssGone \cup {t}
  /\ UNCHANGED <<ssNow, ssPhase, ssSession, ssActive, ssQueue, ssUpdated, ssFlush, ssTemp, ssBackup, ssUsed, ssOrderly>>

SSTick ==
  /\ ssNow < SSTimes /\ ssNow' = ssNow + 1
  /\ UNCHANGED <<ssPhase, ssSession, ssActive, ssQueue, ssUpdated, ssDeleting, ssFlush, SSDisk, ssUsed, ssOrderly, ssGone>>

-----------------------------------------------------------------------------
(* Writing. *)

\* _flush_all takes the queue.
SSTake(f) ==
  /\ ssFlush' = [ssFlush EXCEPT ![f].todo = ssQueue]
  /\ ssQueue' = <<>>

SSLoopTakes ==
  /\ ssPhase # "off" /\ ssFlush["loop"].todo = <<>> /\ ssQueue # <<>>
  /\ SSTake("loop")
  /\ ssOrderly' = (ssOrderly /\ ssPhase = "up")
  /\ UNCHANGED <<ssNow, ssPhase, ssSession, ssActive, ssUpdated, ssDeleting, SSDisk, ssUsed, ssGone>>

\* _write_session_sync: the text, then the temporary file, its new name, and the backup.
SSSerialize(f) ==
  LET t == Head(ssFlush[f].todo)
  IN  /\ ssPhase # "off" /\ ssFlush[f].todo # <<>> /\ ssFlush[f].at = "idle"
      /\ ssFlush' = [ssFlush EXCEPT ![f].at = "write", ![f].text = ssSession[t]]
      /\ UNCHANGED <<ssNow, ssPhase, ssSession, ssActive, ssQueue, ssUpdated, ssDeleting, SSDisk, ssUsed, ssOrderly, ssGone>>

SSWrite(f) ==
  /\ ssPhase # "off" /\ ssFlush[f].at = "write"
  /\ ssTemp' = [ssTemp EXCEPT ![Head(ssFlush[f].todo)] = ssFlush[f].text]
  /\ ssFlush' = [ssFlush EXCEPT ![f].at = "replace"]
  /\ UNCHANGED <<ssNow, ssPhase, ssSession, ssActive, ssQueue, ssUpdated, ssDeleting, ssFile, ssBackup, ssUsed, ssOrderly, ssGone>>

SSDone(f) == [ssFlush EXCEPT ![f] = [SSIdle EXCEPT !.todo = Tail(ssFlush[f].todo)]]

\* The other thread may have renamed the temporary file already: the write fails.
SSReplace(f) ==
  LET t == Head(ssFlush[f].todo)
  IN  /\ ssPhase # "off" /\ ssFlush[f].at = "replace"
      /\ IF ssTemp[t] = SSNone
         THEN ssFlush' = SSDone(f) /\ UNCHANGED <<ssTemp, ssFile>>
         ELSE /\ ssFile' = [ssFile EXCEPT ![t] = ssTemp[t]] /\ ssTemp' = [ssTemp EXCEPT ![t] = SSNone]
              /\ ssFlush' = [ssFlush EXCEPT ![f].at = "backup"]
      /\ UNCHANGED <<ssNow, ssPhase, ssSession, ssActive, ssQueue, ssUpdated, ssDeleting, ssBackup, ssUsed, ssOrderly, ssGone>>

\* Mutant of SSCopied: the backup is made of the file before it.
SSCopiedFirst(t) == IF ssBackup[t] = SSNone THEN ssFile[t] ELSE ssBackup[t]

SSCopied(t) == IF ssFile[t] = SSNone THEN ssBackup[t] ELSE ssFile[t]

\* The copy of a file that was deleted meanwhile fails, and nobody is told.
SSBackUp(f) ==
  LET t == Head(ssFlush[f].todo)
  IN  /\ ssPhase # "off" /\ ssFlush[f].at = "backup"
      /\ ssBackup' = [ssBackup EXCEPT ![t] = SSCopied(t)]
      /\ ssFlush' = SSDone(f)
      /\ UNCHANGED <<ssNow, ssPhase, ssSession, ssActive, ssQueue, ssUpdated, ssDeleting, ssTemp, ssFile, ssUsed, ssOrderly, ssGone>>

-----------------------------------------------------------------------------
(* Stop, crash and start. *)

\* stop(): the active sessions are queued and flushed, whatever the flush thread is doing;
\* the calls of clients have ended.
SSStop ==
  /\ ssPhase = "up" /\ ssPhase' = "persisting"
  /\ \E order \in SetToSeqs(ssActive) :
       ssFlush' = [ssFlush EXCEPT !["stop"].todo = SelectSeq(ssQueue, LAMBDA t : t \notin ssActive) \o order]
  /\ ssQueue' = <<>>
  /\ ssOrderly' = (ssFlush["loop"].todo = <<>>)
  /\ UNCHANGED <<ssNow, ssSession, ssActive, ssUpdated, ssDeleting, SSDisk, ssUsed, ssGone>>

\* SessionPersistence.stop flushes what was queued since; then the process ends.
SSStopFlushes ==
  /\ ssFlush["stop"].todo = <<>>
  /\ \/ ssPhase = "persisting" /\ ssPhase' = "final" /\ SSTake("stop") /\ UNCHANGED ssOrderly
     \/ ssPhase = "final" /\ ssPhase' = "off" /\ UNCHANGED <<ssFlush, ssQueue>>
        /\ ssOrderly' = (ssOrderly /\ ssUpdated = {})
  /\ UNCHANGED <<ssNow, ssSession, ssActive, ssUpdated, ssDeleting, SSDisk, ssUsed, ssGone>>

SSCrash ==
  /\ ssPhase # "off" /\ ssPhase' = "off" /\ ssOrderly' = FALSE
  /\ UNCHANGED <<ssNow, ssSession, ssActive, ssQueue, ssUpdated, ssDeleting, ssFlush, SSDisk, ssUsed, ssGone>>

SSRecovered == {t \in SSTokens : ssFile[t] # SSNone /\ ssBackup[t] # SSNone}

\* _recover_sessions goes by the files, and takes each session from its newest backup, whose
\* age nobody checks.
SSStart ==
  /\ ssPhase = "off" /\ ssPhase' = "up" /\ ssOrderly' = TRUE
  /\ ssActive' = SSRecovered
  /\ ssSession' = [t \in SSTokens |-> IF t \in SSRecovered THEN ssBackup[t] ELSE ssSession[t]]
  /\ ssQueue' = <<>> /\ ssUpdated' = {} /\ ssDeleting' = {}
  /\ ssFlush' = [f \in DOMAIN ssFlush |-> SSIdle]
  /\ UNCHANGED <<ssNow, SSDisk, ssUsed, ssGone>>

SSNext ==
  \/ \E t \in SSTokens :
       SSCreate(t) \/ SSGet(t) \/ SSUpdate(t) \/ SSUpdateQueued(t) \/ SSEnd(t) \/ SSDelete(t)
  \/ SSCleanup \/ SSTick \/ SSLoopTakes
  \/ \E f \in DOMAIN ssFlush : SSSerialize(f) \/ SSWrite(f) \/ SSReplace(f) \/ SSBackUp(f)
  \/ SSStop \/ SSStopFlushes \/ SSCrash \/ SSStart

-----------------------------------------------------------------------------
(* Properties. *)

SSTexts == [db : 0..SSUpdates, seen : 0..(SSTimes + 1)]

\* Every variable has its type, and the queue holds a session once.
SSTypeOK ==
  /\ ssNow \in 0..SSTimes /\ ssPhase \in {"up", "persisting", "final", "off"}
  /\ ssSession \in [SSTokens -> SSTexts] /\ ssActive \subseteq ssUsed /\ ssUsed \subseteq SSTokens
  /\ ssQueue \in Seq(SSTokens) /\ IsInjective(ssQueue)
  /\ ssUpdated \subseteq ssUsed /\ ssDeleting \subseteq ssUsed /\ ssGone \subseteq ssUsed
  /\ \A f \in DOMAIN ssFlush : ssFlush[f].at \in {"idle", "write", "replace", "backup"}
  /\ ssTemp \in [SSTokens -> SSTexts] /\ ssFile \in [SSTokens -> SSTexts] /\ ssBackup \in [SSTokens -> SSTexts]

\* A stop that meets no write of the flush thread loses nothing: every session that was
\* active has a file, and its newest backup is what the session was.
SSStopKeeps ==
  ssPhase = "off" /\ ssOrderly =>
    \A t \in ssActive : t \in SSRecovered /\ ssBackup[t] = ssSession[t]

\* A session whose file was deleted when no write of it was left never comes back, whatever
\* stops, crashes and recoveries follow, though its backups stay on the disk.
SSGoneForEver == ssGone \cap ssActive = {}
=============================================================================
