------------------------ MODULE VideoService_proofs ------------------------
(***************************************************************************)
(* Proofs about VideoService, for any callers and messages: one caller     *)
(* makes the video of a message (ServiceInv), from which follow the safety *)
(* properties and that Generate implements VideoAnswers.                   *)
(***************************************************************************)
EXTENDS VideoService, TLAPS

USE DEF Steps, Making, Replies, Failures, Refusal

----------------------------------------------------------------------------
(* The inductive invariant. *)

LEMMA InitInv == Init => ServiceInv
BY NothingAssumption, MaxTasksAssumption
   DEF Init, ServiceInv, TypeOK, CallerInv, EntryInv, Makes, OneTask, MediaIsWhole, VideoIsReal

\* what a caller does
ByCaller(c) == CallerStep(c) \/ \E r \in Requests : HandleChat(c, r)

\* a caller that is busy handles a message
LEMMA BusyHasRequest ==
    ASSUME ServiceInv, NEW c \in Callers, step[c] # "idle"
    PROVE  req[c] \in Requests
BY DEF ServiceInv, TypeOK, CallerInv

\* A step of a caller keeps the types.
LEMMA CallerType == ASSUME ServiceInv, NEW c \in Callers, ByCaller(c) PROVE TypeOK'
<1> USE BusyHasRequest, MaxTasksAssumption DEF ServiceInv, TypeOK, Goto, local
<1>1. CASE \E r \in Requests : HandleChat(c, r)
    BY <1>1 DEF HandleChat
<1>2. CASE CheckEnabled(c)
    BY <1>2 DEF CheckEnabled
<1>3. CASE LookUp(c)
    BY <1>3 DEF LookUp
<1>4. CASE Wait(c)
    BY <1>4 DEF Wait
<1>5. CASE Publish(c)
    BY <1>5 DEF Publish
<1>6. CASE CloseDone(c)
    BY <1>6 DEF CloseDone
<1>7. CASE SendReplies(c)
    BY <1>7 DEF SendReplies
<1>8. CASE Configure(c)
    BY <1>8 DEF Configure
<1>9. CASE NotConfigured(c)
    BY <1>9 DEF NotConfigured, Produce
<1>10. CASE CreateTask(c)
    BY <1>10 DEF CreateTask, NewTask
<1>11. CASE CreateFails(c)
    BY <1>11 DEF CreateFails, NewTask, Produce
<1>12. CASE QueryTask(c)
    BY <1>12 DEF QueryTask, Produce
<1>13. CASE PollTimeout(c)
    BY <1>13 DEF PollTimeout, Produce
<1>14. CASE RetrieveFile(c)
    BY <1>14 DEF RetrieveFile
<1>15. CASE RetrieveFails(c)
    BY <1>15 DEF RetrieveFails, Produce
<1>16. CASE CreateFile(c)
    BY <1>16 DEF CreateFile
<1>17. CASE CopyFile(c)
    BY <1>17 DEF CopyFile
<1>18. CASE DownloadFails(c)
    BY <1>18 DEF DownloadFails, Produce
<1>19. CASE Upload(c)
    BY <1>19 DEF Upload, Produce
<1>20. CASE UploadFails(c)
    BY <1>20 DEF UploadFails, Produce
<1> QED
    BY <1>1, <1>2, <1>3, <1>4, <1>5, <1>6, <1>7, <1>8, <1>9, <1>10, <1>11, <1>12, <1>13, <1>14, <1>15, <1>16, <1>17, <1>18, <1>19, <1>20 DEF ByCaller, CallerStep

\* It keeps what is known of every caller: no other caller makes the same video.
LEMMA CallerKeepsCallers ==
    ASSUME ServiceInv, NEW c \in Callers, ByCaller(c), NEW d \in Callers
    PROVE  CallerInv(d)'
<1> USE BusyHasRequest, NothingAssumption DEF ServiceInv, TypeOK, CallerInv, EntryInv, Makes, Goto, local
<1>1. CASE \E r \in Requests : HandleChat(c, r)
    BY <1>1 DEF HandleChat
<1>2. CASE CheckEnabled(c)
    BY <1>2 DEF CheckEnabled
<1>3. CASE LookUp(c)
    BY <1>3 DEF LookUp
<1>4. CASE Wait(c)
    BY <1>4 DEF Wait
<1>5. CASE Publish(c)
    BY <1>5 DEF Publish
<1>6. CASE CloseDone(c)
    BY <1>6 DEF CloseDone
<1>7. CASE SendReplies(c)
    BY <1>7 DEF SendReplies
<1>8. CASE Configure(c)
    BY <1>8 DEF Configure
<1>9. CASE NotConfigured(c)
    BY <1>9 DEF NotConfigured, Produce
<1>10. CASE CreateTask(c)
    BY <1>10 DEF CreateTask, NewTask
<1>11. CASE CreateFails(c)
    BY <1>11 DEF CreateFails, NewTask, Produce
<1>12. CASE QueryTask(c)
    BY <1>12 DEF QueryTask, Produce
<1>13. CASE PollTimeout(c)
    BY <1>13 DEF PollTimeout, Produce
<1>14. CASE RetrieveFile(c)
    BY <1>14 DEF RetrieveFile
<1>15. CASE RetrieveFails(c)
    BY <1>15 DEF RetrieveFails, Produce
<1>16. CASE CreateFile(c)
    BY <1>16 DEF CreateFile
<1>17. CASE CopyFile(c)
    BY <1>17 DEF CopyFile
<1>18. CASE DownloadFails(c)
    BY <1>18 DEF DownloadFails, Produce
<1>19. CASE Upload(c)
    BY <1>19 DEF Upload, Produce
<1>20. CASE UploadFails(c)
    BY <1>20 DEF UploadFails, Produce
<1> QED
    BY <1>1, <1>2, <1>3, <1>4, <1>5, <1>6, <1>7, <1>8, <1>9, <1>10, <1>11, <1>12, <1>13, <1>14, <1>15, <1>16, <1>17, <1>18, <1>19, <1>20 DEF ByCaller, CallerStep

\* It keeps what is known of every message.
LEMMA CallerKeepsEntries ==
    ASSUME ServiceInv, NEW c \in Callers, ByCaller(c), NEW q \in Requests
    PROVE  EntryInv(q)'
<1> USE BusyHasRequest, NothingAssumption DEF ServiceInv, TypeOK, CallerInv, EntryInv, Makes, Goto, local
<1>1. CASE \E r \in Requests : HandleChat(c, r)
    BY <1>1 DEF HandleChat
<1>2. CASE CheckEnabled(c)
    BY <1>2 DEF CheckEnabled
<1>3. CASE LookUp(c)
    BY <1>3 DEF LookUp
<1>4. CASE Wait(c)
    BY <1>4 DEF Wait
<1>5. CASE Publish(c)
    BY <1>5 DEF Publish
<1>6. CASE CloseDone(c)
    BY <1>6 DEF CloseDone
<1>7. CASE SendReplies(c)
    BY <1>7 DEF SendReplies
<1>8. CASE Configure(c)
    BY <1>8 DEF Configure
<1>9. CASE NotConfigured(c)
    BY <1>9 DEF NotConfigured, Produce
<1>10. CASE CreateTask(c)
    BY <1>10 DEF CreateTask, NewTask
<1>11. CASE CreateFails(c)
    BY <1>11 DEF CreateFails, NewTask, Produce
<1>12. CASE QueryTask(c)
    BY <1>12 DEF QueryTask, Produce
<1>13. CASE PollTimeout(c)
    BY <1>13 DEF PollTimeout, Produce
<1>14. CASE RetrieveFile(c)
    BY <1>14 DEF RetrieveFile
<1>15. CASE RetrieveFails(c)
    BY <1>15 DEF RetrieveFails, Produce
<1>16. CASE CreateFile(c)
    BY <1>16 DEF CreateFile
<1>17. CASE CopyFile(c)
    BY <1>17 DEF CopyFile
<1>18. CASE DownloadFails(c)
    BY <1>18 DEF DownloadFails, Produce
<1>19. CASE Upload(c)
    BY <1>19 DEF Upload, Produce
<1>20. CASE UploadFails(c)
    BY <1>20 DEF UploadFails, Produce
<1> QED
    BY <1>1, <1>2, <1>3, <1>4, <1>5, <1>6, <1>7, <1>8, <1>9, <1>10, <1>11, <1>12, <1>13, <1>14, <1>15, <1>16, <1>17, <1>18, <1>19, <1>20 DEF ByCaller, CallerStep

\* It keeps the three promises about tasks and files.
LEMMA CallerKeepsPromises ==
    ASSUME ServiceInv, NEW c \in Callers, ByCaller(c)
    PROVE  OneTask' /\ MediaIsWhole' /\ VideoIsReal'
<1> USE BusyHasRequest, NothingAssumption
    DEF ServiceInv, TypeOK, CallerInv, EntryInv, Makes, Goto, local, OneTask, MediaIsWhole, VideoIsReal
<1>1. CASE \E r \in Requests : HandleChat(c, r)
    BY <1>1 DEF HandleChat
<1>2. CASE CheckEnabled(c)
    BY <1>2 DEF CheckEnabled
<1>3. CASE LookUp(c)
    BY <1>3 DEF LookUp
<1>4. CASE Wait(c)
    BY <1>4 DEF Wait
<1>5. CASE Publish(c)
    BY <1>5 DEF Publish
<1>6. CASE CloseDone(c)
    BY <1>6 DEF CloseDone
<1>7. CASE SendReplies(c)
    BY <1>7 DEF SendReplies
<1>8. CASE Configure(c)
    BY <1>8 DEF Configure
<1>9. CASE NotConfigured(c)
    BY <1>9 DEF NotConfigured, Produce
<1>10. CASE CreateTask(c)
    BY <1>10 DEF CreateTask, NewTask
<1>11. CASE CreateFails(c)
    BY <1>11 DEF CreateFails, NewTask, Produce
<1>12. CASE QueryTask(c)
    BY <1>12 DEF QueryTask, Produce
<1>13. CASE PollTimeout(c)
    BY <1>13 DEF PollTimeout, Produce
<1>14. CASE RetrieveFile(c)
    BY <1>14 DEF RetrieveFile
<1>15. CASE RetrieveFails(c)
    BY <1>15 DEF RetrieveFails, Produce
<1>16. CASE CreateFile(c)
    BY <1>16 DEF CreateFile
<1>17. CASE CopyFile(c)
    BY <1>17 DEF CopyFile
<1>18. CASE DownloadFails(c)
    BY <1>18 DEF DownloadFails, Produce
<1>19. CASE Upload(c)
    BY <1>19 DEF Upload, Produce
<1>20. CASE UploadFails(c)
    BY <1>20 DEF UploadFails, Produce
<1> QED
    BY <1>1, <1>2, <1>3, <1>4, <1>5, <1>6, <1>7, <1>8, <1>9, <1>10, <1>11, <1>12, <1>13, <1>14, <1>15, <1>16, <1>17, <1>18, <1>19, <1>20 DEF ByCaller, CallerStep

\* The provider, a change of .env and a crash keep the invariant.
LEMMA EnvironmentInv ==
    ASSUME ServiceInv, (\E r \in Requests : TaskEnds(r)) \/ SwitchVideo \/ Crash
    PROVE  ServiceInv'
<1> USE MaxTasksAssumption, NothingAssumption
    DEF ServiceInv, TypeOK, CallerInv, EntryInv, Makes, local, OneTask, MediaIsWhole, VideoIsReal
<1>1. CASE \E r \in Requests : TaskEnds(r)
    BY <1>1 DEF TaskEnds
<1>2. CASE SwitchVideo
    BY <1>2 DEF SwitchVideo
<1>3. CASE Crash
    BY <1>3 DEF Crash
<1> QED BY <1>1, <1>2, <1>3

\* Every step keeps the invariant.
LEMMA StepInv == ServiceInv /\ [Next]_vars => ServiceInv'
<1> SUFFICES ASSUME ServiceInv, [Next]_vars PROVE ServiceInv'
    OBVIOUS
<1>1. ASSUME NEW c \in Callers, ByCaller(c) PROVE ServiceInv'
    BY <1>1, CallerType, CallerKeepsCallers, CallerKeepsEntries, CallerKeepsPromises DEF ServiceInv
<1>2. CASE (\E r \in Requests : TaskEnds(r)) \/ SwitchVideo \/ Crash
    BY <1>2, EnvironmentInv
<1>3. CASE UNCHANGED vars
    BY <1>3 DEF vars, ServiceInv, TypeOK, CallerInv, EntryInv, Makes, OneTask, MediaIsWhole, VideoIsReal
<1> QED BY <1>1, <1>2, <1>3 DEF Next, ByCaller

LEMMA Invariance == Spec => []ServiceInv
BY InitInv, StepInv, PTL DEF Spec

----------------------------------------------------------------------------
(* The properties. *)

\* Every variable stays in its set.
THEOREM TypeCorrect == Spec => []TypeOK
<1>1. ServiceInv => TypeOK
    BY DEF ServiceInv
<1> QED BY <1>1, Invariance, PTL

\* One process asks the provider for one task per message (Generate, service.go:79-87).
THEOREM PaidOnce == Spec => []OneTask
<1>1. ServiceInv => OneTask
    BY DEF ServiceInv
<1> QED BY <1>1, Invariance, PTL

\* A partial download is never uploaded (downloadVideo and the upload after it).
THEOREM NoPartialMedia == Spec => []MediaIsWhole
<1>1. ServiceInv => MediaIsWhole
    BY DEF ServiceInv
<1> QED BY <1>1, Invariance, PTL

\* A message answered with a video has a finished task and an uploaded file.
THEOREM AnswersAreTrue == Spec => []VideoIsReal
<1>1. ServiceInv => VideoIsReal
    BY DEF ServiceInv
<1> QED BY <1>1, Invariance, PTL

----------------------------------------------------------------------------
(* Generate implements VideoAnswers: publishing an answer decides it, closing  *)
(* the channel or finding it closed gives it.                                 *)

USE DEF Promise!Init, Promise!Next, Promise!vars, Promise!Ask, Promise!Decide, Promise!Give,
        Promise!Refuse, Promise!Leave, Promise!Forget, Promise!Waiting

LEMMA InitPromise == Init => Promise!Init
BY DEF Init

LEMMA CallerPromise ==
    ASSUME ServiceInv, NEW c \in Callers, ByCaller(c)
    PROVE  [Promise!Next]_Promise!vars
<1> USE BusyHasRequest, NothingAssumption DEF ServiceInv, TypeOK, CallerInv, EntryInv, Makes, Goto, local
<1>1. CASE \E r \in Requests : HandleChat(c, r)
    <2>1. PICK r \in Requests : HandleChat(c, r)
        BY <1>1
    <2>2. Promise!Ask(c, r)
        BY <2>1 DEF HandleChat
    <2> QED BY <2>2
<1>2. CASE CheckEnabled(c)
    BY <1>2 DEF CheckEnabled
<1>3. CASE Wait(c)
    <2>1. Promise!Give(c)
        BY <1>3 DEF Wait
    <2> QED BY <2>1
<1>4. CASE Publish(c)
    <2>1. req[c] \in Requests /\ given[c] = Nothing /\ answer[req[c]] = Nothing
        BY <1>4 DEF Publish
    <2>2. outcome[c] \in Replies
        BY <1>4 DEF Publish
    <2>3. Promise!Decide(req[c])
        BY <1>4, <2>1, <2>2 DEF Publish
    <2> QED BY <2>1, <2>3
<1>5. CASE CloseDone(c)
    <2>1. Promise!Give(c)
        BY <1>5 DEF CloseDone
    <2> QED BY <2>1
<1>6. CASE SendReplies(c)
    <2>1. Promise!Leave(c)
        BY <1>6 DEF SendReplies
    <2> QED BY <2>1
<1>7. CASE LookUp(c)
    BY <1>7 DEF LookUp
<1>8. CASE Configure(c)
    BY <1>8 DEF Configure
<1>9. CASE NotConfigured(c)
    BY <1>9 DEF NotConfigured, Produce
<1>10. CASE CreateTask(c)
    BY <1>10 DEF CreateTask, NewTask
<1>11. CASE CreateFails(c)
    BY <1>11 DEF CreateFails, NewTask, Produce
<1>12. CASE QueryTask(c)
    BY <1>12 DEF QueryTask, Produce
<1>13. CASE PollTimeout(c)
    BY <1>13 DEF PollTimeout, Produce
<1>14. CASE RetrieveFile(c)
    BY <1>14 DEF RetrieveFile
<1>15. CASE RetrieveFails(c)
    BY <1>15 DEF RetrieveFails, Produce
<1>16. CASE CreateFile(c)
    BY <1>16 DEF CreateFile
<1>17. CASE CopyFile(c)
    BY <1>17 DEF CopyFile
<1>18. CASE DownloadFails(c)
    BY <1>18 DEF DownloadFails, Produce
<1>19. CASE Upload(c)
    BY <1>19 DEF Upload, Produce
<1>20. CASE UploadFails(c)
    BY <1>20 DEF UploadFails, Produce
<1> QED
    BY <1>1, <1>2, <1>3, <1>4, <1>5, <1>6, <1>7, <1>8, <1>9, <1>10, <1>11, <1>12, <1>13, <1>14, <1>15, <1>16, <1>17, <1>18, <1>19, <1>20 DEF ByCaller, CallerStep

\* Every step is a step of the promise, or none.
LEMMA StepPromise == ServiceInv /\ [Next]_vars => [Promise!Next]_Promise!vars
<1> SUFFICES ASSUME ServiceInv, [Next]_vars PROVE [Promise!Next]_Promise!vars
    OBVIOUS
<1>1. ASSUME NEW c \in Callers, ByCaller(c) PROVE [Promise!Next]_Promise!vars
    BY <1>1, CallerPromise
<1>2. ASSUME NEW r \in Requests, TaskEnds(r) PROVE UNCHANGED Promise!vars
    BY <1>2 DEF TaskEnds, local
<1>3. CASE SwitchVideo
    BY <1>3 DEF SwitchVideo, local
<1>4. CASE Crash
    BY <1>4 DEF Crash
<1>5. CASE UNCHANGED vars
    BY <1>5 DEF vars
<1> QED BY <1>1, <1>2, <1>3, <1>4, <1>5 DEF Next, ByCaller

\* All calls of a message are given the one answer that was published for it
\* (requestResult and its channel, service.go:35-39 and 79-91).
THEOREM GenerateKeepsPromise == Spec => OneAnswer
<1>1. Init => Promise!Init
    BY InitPromise
<1>2. ServiceInv /\ [Next]_vars => [Promise!Next]_Promise!vars
    BY StepPromise
<1> QED BY <1>1, <1>2, Invariance, PTL DEF Spec, OneAnswer, Promise!Spec
=============================================================================
