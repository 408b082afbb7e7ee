----------------------- MODULE SessionLifecycle_proofs -----------------------
(***************************************************************************)
(* Proofs, for all limits on retries, that SessionLifecycle keeps its      *)
(* types and that no initialization overwrites a live socket.              *)
(*                                                                         *)
(* The argument: Initialize is the only way into an initialization and     *)
(* does nothing while another is under way (OneInitialization).  PassFence *)
(* ends the socket there is, and while its caller sets up the next one, no *)
(* other step makes a socket, as only Setup does (SetupHasNoSocket).       *)
(* Counters stay in range because a handler that reached the limit goes on *)
(* to reset it before the next close is handled (LimitsGiveUp).            *)
(***************************************************************************)
EXTENDS SessionLifecycle, TLAPS

\* The steps of an initialization past its fencing delay preserve the invariant.
LEMMA InitStepsInv ==
    ASSUME LifeInv, NEW c \in Caller,
           \/ PassFence(c)
           \/ Setup(c)
           \/ InitFails(c)
    PROVE  LifeInv'
<1> USE Limits DEF Status, Caller, row, commands, counters, handlers
<1>1. CASE PassFence(c)
  <2>1. FlagType'
    BY <1>1, Zenon DEF LifeInv, TypeOK, FlagType, PassFence, ForgetSocket
  <2>2. CountType'
    BY <1>1 DEF LifeInv, TypeOK, CountType, LimitsGiveUp, PassFence,
       ForgetSocket
  <2>3. PlaceType'
    BY <1>1 DEF LifeInv, TypeOK, PlaceType, PassFence, ForgetSocket
  <2>4. OneInitialization'
    BY <1>1 DEF LifeInv, TypeOK, OneInitialization, PlaceType, PassFence,
       ForgetSocket
  <2>5. SetupHasNoSocket'
    BY <1>1 DEF LifeInv, TypeOK, SetupHasNoSocket, PlaceType,
       OneInitialization, PassFence, ForgetSocket
  <2>6. LimitsGiveUp'
    BY <1>1 DEF LifeInv, TypeOK, LimitsGiveUp, CountType, PlaceType,
       PassFence, ForgetSocket
  <2>q. QED  BY <2>1, <2>2, <2>3, <2>4, <2>5, <2>6 DEF LifeInv, TypeOK
<1>2. CASE Setup(c)
  BY <1>2 DEF LifeInv, TypeOK, FlagType, CountType, PlaceType,
     OneInitialization, SetupHasNoSocket, LimitsGiveUp, Setup
<1>3. CASE InitFails(c)
  <2>1. FlagType'
    BY <1>3, Zenon DEF LifeInv, TypeOK, FlagType, InitFails, SetStatus, Listed
  <2>2. CountType'
    BY <1>3 DEF LifeInv, TypeOK, CountType, LimitsGiveUp, InitFails,
       SetStatus, Listed
  <2>3. PlaceType'
    <3>1. queue' \subseteq {"restart", "destroy"}
      BY <1>3 DEF LifeInv, TypeOK, PlaceType, InitFails
    <3>q. QED
      BY <1>3, <3>1 DEF LifeInv, TypeOK, PlaceType, InitFails, SetStatus,
         Listed
  <2>4. OneInitialization'
    BY <1>3 DEF LifeInv, TypeOK, OneInitialization, PlaceType, InitFails,
       SetStatus, Listed
  <2>5. SetupHasNoSocket'
    BY <1>3 DEF LifeInv, TypeOK, SetupHasNoSocket, PlaceType,
       OneInitialization, InitFails, SetStatus, Listed
  <2>6. LimitsGiveUp'
    BY <1>3 DEF LifeInv, TypeOK, LimitsGiveUp, CountType, PlaceType,
       InitFails, SetStatus, Listed
  <2>q. QED  BY <2>1, <2>2, <2>3, <2>4, <2>5, <2>6 DEF LifeInv, TypeOK
<1>q. QED  BY <1>1, <1>2, <1>3

\* The events of the connection, a close up to its counting preserve the invariant.
LEMMA ConnectionInv ==
    ASSUME LifeInv,
           NEW reason \in {"logout", "read", "read428", "read515"},
           \/ QrShown
           \/ Open
           \/ OpenReport
           \/ Close(reason)
           \/ LoggedOut
    PROVE  LifeInv'
<1> USE Limits DEF Status, Caller, row, commands, counters, handlers
<1>1. CASE QrShown
  BY <1>1 DEF LifeInv, TypeOK, FlagType, CountType, PlaceType,
     OneInitialization, SetupHasNoSocket, LimitsGiveUp, QrShown, SetStatus,
     Listed
<1>2. CASE Open
  <2>1. FlagType'
    BY <1>2, Zenon DEF LifeInv, TypeOK, FlagType, Open, Listed
  <2>2. CountType'
    BY <1>2 DEF LifeInv, TypeOK, CountType, LimitsGiveUp, Open, Listed
  <2>3. PlaceType'
    BY <1>2 DEF LifeInv, TypeOK, PlaceType, Open, Listed
  <2>4. OneInitialization'
    BY <1>2 DEF LifeInv, TypeOK, OneInitialization, PlaceType, Open, Listed
  <2>5. SetupHasNoSocket'
    BY <1>2 DEF LifeInv, TypeOK, SetupHasNoSocket, PlaceType,
       OneInitialization, Open, Listed
  <2>6. LimitsGiveUp'
    BY <1>2 DEF LifeInv, TypeOK, LimitsGiveUp, CountType, PlaceType, Open,
       Listed
  <2>q. QED  BY <2>1, <2>2, <2>3, <2>4, <2>5, <2>6 DEF LifeInv, TypeOK
<1>3. CASE OpenReport
  <2>1. FlagType'
    BY <1>3, Zenon DEF LifeInv, TypeOK, FlagType, OpenReport, SetStatus,
       Listed
  <2>2. CountType'
    BY <1>3 DEF LifeInv, TypeOK, CountType, LimitsGiveUp, OpenReport,
       SetStatus, Listed
  <2>3. PlaceType'
    BY <1>3 DEF LifeInv, TypeOK, PlaceType, OpenReport, SetStatus, Listed
  <2>4. OneInitialization'
    BY <1>3 DEF LifeInv, TypeOK, OneInitialization, PlaceType, OpenReport,
       SetStatus, Listed
  <2>5. SetupHasNoSocket'
    BY <1>3 DEF LifeInv, TypeOK, SetupHasNoSocket, PlaceType,
       OneInitialization, OpenReport, SetStatus, Listed
  <2>6. LimitsGiveUp'
    BY <1>3 DEF LifeInv, TypeOK, LimitsGiveUp, CountType, PlaceType,
       OpenReport, SetStatus, Listed
  <2>q. QED  BY <2>1, <2>2, <2>3, <2>4, <2>5, <2>6 DEF LifeInv, TypeOK
<1>4. CASE Close(reason)
  <2>1. FlagType'
    BY <1>4, Zenon DEF LifeInv, TypeOK, FlagType, Close
  <2>2. CountType'
    BY <1>4 DEF LifeInv, TypeOK, CountType, LimitsGiveUp, Close
  <2>3. PlaceType'
    BY <1>4 DEF LifeInv, TypeOK, PlaceType, Close
  <2>4. OneInitialization'
    BY <1>4 DEF LifeInv, TypeOK, OneInitialization, PlaceType, Close
  <2>5. SetupHasNoSocket'
    BY <1>4 DEF LifeInv, TypeOK, SetupHasNoSocket, PlaceType,
       OneInitialization, Close
  <2>6. LimitsGiveUp'
    BY <1>4 DEF LifeInv, TypeOK, LimitsGiveUp, CountType, PlaceType, Close
  <2>q. QED  BY <2>1, <2>2, <2>3, <2>4, <2>5, <2>6 DEF LifeInv, TypeOK
<1>5. CASE LoggedOut
  BY <1>5 DEF LifeInv, TypeOK, FlagType, CountType, PlaceType,
     OneInitialization, SetupHasNoSocket, LimitsGiveUp, LoggedOut, SetStatus,
     Listed, ForgetSocket
<1>q. QED  BY <1>1, <1>2, <1>3, <1>4, <1>5

\* The counting of closes, and the reconnect timer preserve the invariant.
LEMMA RetryInv ==
    ASSUME LifeInv,
           \/ CountClose
           \/ ScheduleReconnect
           \/ Reconnect
    PROVE  LifeInv'
<1> USE Limits DEF Status, Caller, row, commands, counters, handlers
<1>1. CASE CountClose
  <2>1. FlagType'
    BY <1>1, Zenon DEF LifeInv, TypeOK, FlagType, CountClose, NeverPaired
  <2>2. CountType'
    BY <1>1 DEF LifeInv, TypeOK, CountType, LimitsGiveUp, CountClose,
       NeverPaired
  <2>3. PlaceType'
    BY <1>1 DEF LifeInv, TypeOK, PlaceType, CountClose, NeverPaired
  <2>4. OneInitialization'
    BY <1>1 DEF LifeInv, TypeOK, OneInitialization, PlaceType, CountClose,
       NeverPaired
  <2>5. SetupHasNoSocket'
    BY <1>1 DEF LifeInv, TypeOK, SetupHasNoSocket, PlaceType,
       OneInitialization, CountClose, NeverPaired
  <2>6. LimitsGiveUp'
    BY <1>1 DEF LifeInv, TypeOK, LimitsGiveUp, CountType, PlaceType,
       CountClose, NeverPaired
  <2>q. QED  BY <2>1, <2>2, <2>3, <2>4, <2>5, <2>6 DEF LifeInv, TypeOK
<1>2. CASE ScheduleReconnect
  BY <1>2 DEF LifeInv, TypeOK, FlagType, CountType, PlaceType,
     OneInitialization, SetupHasNoSocket, LimitsGiveUp, ScheduleReconnect,
     SetStatus, Listed
<1>3. CASE Reconnect
  <2>1. FlagType'
    BY <1>3, Zenon DEF LifeInv, TypeOK, FlagType, Reconnect, Initialize,
       InProgress
  <2>2. CountType'
    BY <1>3 DEF LifeInv, TypeOK, CountType, LimitsGiveUp, Reconnect,
       Initialize, InProgress
  <2>3. PlaceType'
    BY <1>3 DEF LifeInv, TypeOK, PlaceType, Reconnect, Initialize, InProgress
  <2>4. OneInitialization'
    BY <1>3 DEF LifeInv, TypeOK, OneInitialization, PlaceType, Reconnect,
       Initialize, InProgress
  <2>5. SetupHasNoSocket'
    BY <1>3 DEF LifeInv, TypeOK, SetupHasNoSocket, PlaceType,
       OneInitialization, Reconnect, Initialize, InProgress
  <2>6. LimitsGiveUp'
    BY <1>3 DEF LifeInv, TypeOK, LimitsGiveUp, CountType, PlaceType,
       Reconnect, Initialize, InProgress
  <2>q. QED  BY <2>1, <2>2, <2>3, <2>4, <2>5, <2>6 DEF LifeInv, TypeOK
<1>q. QED  BY <1>1, <1>2, <1>3

\* Ends of a session (retries used up, credentials not saved, lease lost) preserve the invariant.
LEMMA GivingUpInv ==
    ASSUME LifeInv,
           \/ GiveUp
           \/ GiveUpTerminate
           \/ SaveCreds
           \/ MarkAuthFailure
           \/ AuthFailureTerminate
           \/ LateDisconnected
           \/ HeartbeatLost
           \/ HeartbeatFails
           \/ LockExpires
           \/ SlowSetup
    PROVE  LifeInv'
<1> USE Limits DEF Status, Caller, row, commands, counters, handlers
<1>1. CASE GiveUp
  BY <1>1 DEF LifeInv, TypeOK, FlagType, CountType, PlaceType,
     OneInitialization, SetupHasNoSocket, LimitsGiveUp, GiveUp, SetStatus,
     Listed
<1>2. CASE GiveUpTerminate
  <2>1. FlagType'
    BY <1>2, Zenon DEF LifeInv, TypeOK, FlagType, GiveUpTerminate,
       ForceTerminate, ForgetSocket, Released
  <2>2. CountType'
    BY <1>2 DEF LifeInv, TypeOK, CountType, LimitsGiveUp, GiveUpTerminate,
       ForceTerminate, ForgetSocket, Released
  <2>3. PlaceType'
    BY <1>2 DEF LifeInv, TypeOK, PlaceType, GiveUpTerminate, ForceTerminate,
       ForgetSocket, Released
  <2>4. OneInitialization'
    BY <1>2 DEF LifeInv, TypeOK, OneInitialization, PlaceType,
       GiveUpTerminate, ForceTerminate, ForgetSocket, Released
  <2>5. SetupHasNoSocket'
    BY <1>2 DEF LifeInv, TypeOK, SetupHasNoSocket, PlaceType,
       OneInitialization, GiveUpTerminate, ForceTerminate, ForgetSocket,
       Released
  <2>6. LimitsGiveUp'
    BY <1>2 DEF LifeInv, TypeOK, LimitsGiveUp, CountType, PlaceType,
       GiveUpTerminate, ForceTerminate, ForgetSocket, Released
  <2>q. QED  BY <2>1, <2>2, <2>3, <2>4, <2>5, <2>6 DEF LifeInv, TypeOK
<1>3. CASE SaveCreds
  BY <1>3 DEF LifeInv, TypeOK, FlagType, CountType, PlaceType,
     OneInitialization, SetupHasNoSocket, LimitsGiveUp, SaveCreds
<1>4. CASE MarkAuthFailure
  <2>1. FlagType'
    BY <1>4, Zenon DEF LifeInv, TypeOK, FlagType, MarkAuthFailure, SetStatus,
       Listed
  <2>2. CountType'
    BY <1>4 DEF LifeInv, TypeOK, CountType, LimitsGiveUp, MarkAuthFailure,
       SetStatus, Listed
  <2>3. PlaceType'
    BY <1>4 DEF LifeInv, TypeOK, PlaceType, MarkAuthFailure, SetStatus, Listed
  <2>4. OneInitialization'
    BY <1>4 DEF LifeInv, TypeOK, OneInitialization, PlaceType,
       MarkAuthFailure, SetStatus, Listed
  <2>5. SetupHasNoSocket'
    BY <1>4 DEF LifeInv, TypeOK, SetupHasNoSocket, PlaceType,
       OneInitialization, MarkAuthFailure, SetStatus, Listed
  <2>6. LimitsGiveUp'
    BY <1>4 DEF LifeInv, TypeOK, LimitsGiveUp, CountType, PlaceType,
       MarkAuthFailure, SetStatus, Listed
  <2>q. QED  BY <2>1, <2>2, <2>3, <2>4, <2>5, <2>6 DEF LifeInv, TypeOK
<1>5. CASE AuthFailureTerminate
  <2>1. FlagType'
    BY <1>5, Zenon DEF LifeInv, TypeOK, FlagType, AuthFailureTerminate,
       ForceTerminate, ForgetSocket, Released
  <2>2. CountType'
    BY <1>5 DEF LifeInv, TypeOK, CountType, LimitsGiveUp,
       AuthFailureTerminate, ForceTerminate, ForgetSocket, Released
  <2>3. PlaceType'
    BY <1>5 DEF LifeInv, TypeOK, PlaceType, AuthFailureTerminate,
       ForceTerminate, ForgetSocket, Released
  <2>4. OneInitialization'
    BY <1>5 DEF LifeInv, TypeOK, OneInitialization, PlaceType,
       AuthFailureTerminate, ForceTerminate, ForgetSocket, Released
  <2>5. SetupHasNoSocket'
    BY <1>5 DEF LifeInv, TypeOK, SetupHasNoSocket, PlaceType,
       OneInitialization, AuthFailureTerminate, ForceTerminate, ForgetSocket,
       Released
  <2>6. LimitsGiveUp'
    BY <1>5 DEF LifeInv, TypeOK, LimitsGiveUp, CountType, PlaceType,
       AuthFailureTerminate, ForceTerminate, ForgetSocket, Released
  <2>q. QED  BY <2>1, <2>2, <2>3, <2>4, <2>5, <2>6 DEF LifeInv, TypeOK
<1>6. CASE LateDisconnected
  <2>1. FlagType'
    BY <1>6, Zenon DEF LifeInv, TypeOK, FlagType, LateDisconnected, SetStatus,
       Listed
  <2>2. CountType'
    BY <1>6 DEF LifeInv, TypeOK, CountType, LimitsGiveUp, LateDisconnected,
       SetStatus, Listed
  <2>3. PlaceType'
    BY <1>6 DEF LifeInv, TypeOK, PlaceType, LateDisconnected, SetStatus,
       Listed
  <2>4. OneInitialization'
    BY <1>6 DEF LifeInv, TypeOK, OneInitialization, PlaceType,
       LateDisconnected, SetStatus, Listed
  <2>5. SetupHasNoSocket'
    BY <1>6 DEF LifeInv, TypeOK, SetupHasNoSocket, PlaceType,
       OneInitialization, LateDisconnected, SetStatus, Listed
  <2>6. LimitsGiveUp'
    BY <1>6 DEF LifeInv, TypeOK, LimitsGiveUp, CountType, PlaceType,
       LateDisconnected, SetStatus, Listed
  <2>q. QED  BY <2>1, <2>2, <2>3, <2>4, <2>5, <2>6 DEF LifeInv, TypeOK
<1>7. CASE HeartbeatLost
  <2>1. FlagType'
    BY <1>7, Zenon DEF LifeInv, TypeOK, FlagType, HeartbeatLost,
       ForceTerminate, ForgetSocket
  <2>2. CountType'
    BY <1>7 DEF LifeInv, TypeOK, CountType, LimitsGiveUp, HeartbeatLost,
       ForceTerminate, ForgetSocket
  <2>3. PlaceType'
    BY <1>7 DEF LifeInv, TypeOK, PlaceType, HeartbeatLost, ForceTerminate,
       ForgetSocket
  <2>4. OneInitialization'
    BY <1>7 DEF LifeInv, TypeOK, OneInitialization, PlaceType, HeartbeatLost,
       ForceTerminate, ForgetSocket
  <2>5. SetupHasNoSocket'
    BY <1>7 DEF LifeInv, TypeOK, SetupHasNoSocket, PlaceType,
       OneInitialization, HeartbeatLost, ForceTerminate, ForgetSocket
  <2>6. LimitsGiveUp'
    BY <1>7 DEF LifeInv, TypeOK, LimitsGiveUp, CountType, PlaceType,
       HeartbeatLost, ForceTerminate, ForgetSocket
  <2>q. QED  BY <2>1, <2>2, <2>3, <2>4, <2>5, <2>6 DEF LifeInv, TypeOK
<1>8. CASE HeartbeatFails
  <2>1. FlagType'
    BY <1>8, Zenon DEF LifeInv, TypeOK, FlagType, HeartbeatFails,
       ForceTerminate, ForgetSocket, Released
  <2>2. CountType'
    BY <1>8 DEF LifeInv, TypeOK, CountType, LimitsGiveUp, HeartbeatFails,
       ForceTerminate, ForgetSocket, Released
  <2>3. PlaceType'
    BY <1>8 DEF LifeInv, TypeOK, PlaceType, HeartbeatFails, ForceTerminate,
       ForgetSocket, Released
  <2>4. OneInitialization'
    BY <1>8 DEF LifeInv, TypeOK, OneInitialization, PlaceType, HeartbeatFails,
       ForceTerminate, ForgetSocket, Released
  <2>5. SetupHasNoSocket'
    BY <1>8 DEF LifeInv, TypeOK, SetupHasNoSocket, PlaceType,
       OneInitialization, HeartbeatFails, ForceTerminate, ForgetSocket,
       Released
  <2>6. LimitsGiveUp'
    BY <1>8 DEF LifeInv, TypeOK, LimitsGiveUp, CountType, PlaceType,
       HeartbeatFails, ForceTerminate, ForgetSocket, Released
  <2>q. QED  BY <2>1, <2>2, <2>3, <2>4, <2>5, <2>6 DEF LifeInv, TypeOK
<1>9. CASE LockExpires
  BY <1>9 DEF LifeInv, TypeOK, FlagType, CountType, PlaceType,
     OneInitialization, SetupHasNoSocket, LimitsGiveUp, LockExpires, Expire
<1>10. CASE SlowSetup
  BY <1>10 DEF LifeInv, TypeOK, FlagType, CountType, PlaceType,
     OneInitialization, SetupHasNoSocket, LimitsGiveUp, SlowSetup, Expire
<1>q. QED  BY <1>1, <1>2, <1>3, <1>4, <1>5, <1>6, <1>7, <1>8, <1>9, <1>10

\* Control jobs preserve the invariant.
LEMMA JobsInv ==
    ASSUME LifeInv,
           \/ TakeRestart
           \/ Restart
           \/ TakeDestroy
           \/ DestroySocket
           \/ DestroyRest
    PROVE  LifeInv'
<1> USE Limits DEF Status, Caller, row, commands, counters, handlers
<1>1. CASE TakeRestart
  <2>1. FlagType'
    BY <1>1, Zenon DEF LifeInv, TypeOK, FlagType, TakeRestart, SetStatus,
       Listed
  <2>2. CountType'
    BY <1>1 DEF LifeInv, TypeOK, CountType, LimitsGiveUp, TakeRestart,
       SetStatus, Listed
  <2>3. PlaceType'
    BY <1>1 DEF LifeInv, TypeOK, PlaceType, TakeRestart, SetStatus, Listed
  <2>4. OneInitialization'
    BY <1>1 DEF LifeInv, TypeOK, OneInitialization, PlaceType, TakeRestart,
       SetStatus, Listed
  <2>5. SetupHasNoSocket'
    BY <1>1 DEF LifeInv, TypeOK, SetupHasNoSocket, PlaceType,
       OneInitialization, TakeRestart, SetStatus, Listed
  <2>6. LimitsGiveUp'
    BY <1>1 DEF LifeInv, TypeOK, LimitsGiveUp, CountType, PlaceType,
       TakeRestart, SetStatus, Listed
  <2>q. QED  BY <2>1, <2>2, <2>3, <2>4, <2>5, <2>6 DEF LifeInv, TypeOK
<1>2. CASE Restart
  <2>1. FlagType'
    BY <1>2, Zenon DEF LifeInv, TypeOK, FlagType, Restart, ForceTerminate,
       ForgetSocket, Released, InProgress
  <2>2. CountType'
    BY <1>2 DEF LifeInv, TypeOK, CountType, LimitsGiveUp, Restart,
       ForceTerminate, ForgetSocket, Released, InProgress
  <2>3. PlaceType'
    BY <1>2 DEF LifeInv, TypeOK, PlaceType, Restart, ForceTerminate,
       ForgetSocket, Released, InProgress
  <2>4. OneInitialization'
    BY <1>2 DEF LifeInv, TypeOK, OneInitialization, PlaceType, Restart,
       ForceTerminate, ForgetSocket, Released, InProgress
  <2>5. SetupHasNoSocket'
    BY <1>2 DEF LifeInv, TypeOK, SetupHasNoSocket, PlaceType,
       OneInitialization, Restart, ForceTerminate, ForgetSocket, Released,
       InProgress
  <2>6. LimitsGiveUp'
    BY <1>2 DEF LifeInv, TypeOK, LimitsGiveUp, CountType, PlaceType, Restart,
       ForceTerminate, ForgetSocket, Released, InProgress
  <2>q. QED  BY <2>1, <2>2, <2>3, <2>4, <2>5, <2>6 DEF LifeInv, TypeOK
<1>3. CASE TakeDestroy
  <2>1. FlagType'
    BY <1>3, Zenon DEF LifeInv, TypeOK, FlagType, TakeDestroy
  <2>2. CountType'
    BY <1>3 DEF LifeInv, TypeOK, CountType, LimitsGiveUp, TakeDestroy
  <2>3. PlaceType'
    BY <1>3 DEF LifeInv, TypeOK, PlaceType, TakeDestroy
  <2>4. OneInitialization'
    BY <1>3 DEF LifeInv, TypeOK, OneInitialization, PlaceType, TakeDestroy
  <2>5. SetupHasNoSocket'
    BY <1>3 DEF LifeInv, TypeOK, SetupHasNoSocket, PlaceType,
       OneInitialization, TakeDestroy
  <2>6. LimitsGiveUp'
    BY <1>3 DEF LifeInv, TypeOK, LimitsGiveUp, CountType, PlaceType,
       TakeDestroy
  <2>q. QED  BY <2>1, <2>2, <2>3, <2>4, <2>5, <2>6 DEF LifeInv, TypeOK
<1>4. CASE DestroySocket
  BY <1>4 DEF LifeInv, TypeOK, FlagType, CountType, PlaceType,
     OneInitialization, SetupHasNoSocket, LimitsGiveUp, DestroySocket
<1>5. CASE DestroyRest
  <2>1. FlagType'
    BY <1>5, Zenon DEF LifeInv, TypeOK, FlagType, DestroyRest, SetStatus,
       Listed, Released
  <2>2. CountType'
    BY <1>5 DEF LifeInv, TypeOK, CountType, LimitsGiveUp, DestroyRest,
       SetStatus, Listed, Released
  <2>3. PlaceType'
    BY <1>5 DEF LifeInv, TypeOK, PlaceType, DestroyRest, SetStatus, Listed,
       Released
  <2>4. OneInitialization'
    BY <1>5 DEF LifeInv, TypeOK, OneInitialization, PlaceType, DestroyRest,
       SetStatus, Listed, Released
  <2>5. SetupHasNoSocket'
    BY <1>5 DEF LifeInv, TypeOK, SetupHasNoSocket, PlaceType,
       OneInitialization, DestroyRest, SetStatus, Listed, Released
  <2>6. LimitsGiveUp'
    BY <1>5 DEF LifeInv, TypeOK, LimitsGiveUp, CountType, PlaceType,
       DestroyRest, SetStatus, Listed, Released
  <2>q. QED  BY <2>1, <2>2, <2>3, <2>4, <2>5, <2>6 DEF LifeInv, TypeOK
<1>q. QED  BY <1>1, <1>2, <1>3, <1>4, <1>5

\* The restart and DELETE routes preserve the invariant.
LEMMA RoutesInv ==
    ASSUME LifeInv,
           \/ RequestRestart
           \/ RequestDelete
           \/ DeleteWaited
           \/ DeleteLock
           \/ DeleteRow
    PROVE  LifeInv'
<1> USE Limits DEF Status, Caller, row, commands, counters, handlers
<1>1. CASE RequestRestart
  BY <1>1 DEF LifeInv, TypeOK, FlagType, CountType, PlaceType,
     OneInitialization, SetupHasNoSocket, LimitsGiveUp, RequestRestart, Listed
<1>2. CASE RequestDelete
  <2>1. FlagType'
    BY <1>2, Zenon DEF LifeInv, TypeOK, FlagType, RequestDelete
  <2>2. CountType'
    BY <1>2 DEF LifeInv, TypeOK, CountType, LimitsGiveUp, RequestDelete
  <2>3. PlaceType'
    <3>1. queue' \subseteq {"restart", "destroy"}
      BY <1>2 DEF LifeInv, TypeOK, PlaceType, RequestDelete
    <3>q. QED
      BY <1>2, <3>1 DEF LifeInv, TypeOK, PlaceType, RequestDelete
  <2>4. OneInitialization'
    BY <1>2 DEF LifeInv, TypeOK, OneInitialization, PlaceType, RequestDelete
  <2>5. SetupHasNoSocket'
    BY <1>2 DEF LifeInv, TypeOK, SetupHasNoSocket, PlaceType,
       OneInitialization, RequestDelete
  <2>6. LimitsGiveUp'
    BY <1>2 DEF LifeInv, TypeOK, LimitsGiveUp, CountType, PlaceType,
       RequestDelete
  <2>q. QED  BY <2>1, <2>2, <2>3, <2>4, <2>5, <2>6 DEF LifeInv, TypeOK
<1>3. CASE DeleteWaited
  BY <1>3 DEF LifeInv, TypeOK, FlagType, CountType, PlaceType,
     OneInitialization, SetupHasNoSocket, LimitsGiveUp, DeleteWaited
<1>4. CASE DeleteLock
  BY <1>4 DEF LifeInv, TypeOK, FlagType, CountType, PlaceType,
     OneInitialization, SetupHasNoSocket, LimitsGiveUp, DeleteLock
<1>5. CASE DeleteRow
  <2>1. FlagType'
    BY <1>5, Zenon DEF LifeInv, TypeOK, FlagType, DeleteRow
  <2>2. CountType'
    BY <1>5 DEF LifeInv, TypeOK, CountType, LimitsGiveUp, DeleteRow
  <2>3. PlaceType'
    BY <1>5 DEF LifeInv, TypeOK, PlaceType, DeleteRow
  <2>4. OneInitialization'
    BY <1>5 DEF LifeInv, TypeOK, OneInitialization, PlaceType, DeleteRow
  <2>5. SetupHasNoSocket'
    BY <1>5 DEF LifeInv, TypeOK, SetupHasNoSocket, PlaceType,
       OneInitialization, DeleteRow
  <2>6. LimitsGiveUp'
    BY <1>5 DEF LifeInv, TypeOK, LimitsGiveUp, CountType, PlaceType, DeleteRow
  <2>q. QED  BY <2>1, <2>2, <2>3, <2>4, <2>5, <2>6 DEF LifeInv, TypeOK
<1>q. QED  BY <1>1, <1>2, <1>3, <1>4, <1>5

\* The steps of session-runner.ts preserve the invariant.
LEMMA RunnerInv ==
    ASSUME LifeInv,
           \/ StartJob
           \/ ReconcileSelect
           \/ ReconcileCheck
           \/ ReconcileStart
           \/ Boot
           \/ Crash
    PROVE  LifeInv'
<1> USE Limits DEF Status, Caller, row, commands, counters, handlers
<1>1. CASE StartJob
  <2>1. FlagType'
    BY <1>1, Zenon DEF LifeInv, TypeOK, FlagType, StartJob, Initialize,
       InProgress
  <2>2. CountType'
    BY <1>1 DEF LifeInv, TypeOK, CountType, LimitsGiveUp, StartJob,
       Initialize, InProgress
  <2>3. PlaceType'
    BY <1>1 DEF LifeInv, TypeOK, PlaceType, StartJob, Initialize, InProgress
  <2>4. OneInitialization'
    BY <1>1 DEF LifeInv, TypeOK, OneInitialization, PlaceType, StartJob,
       Initialize, InProgress
  <2>5. SetupHasNoSocket'
    BY <1>1 DEF LifeInv, TypeOK, SetupHasNoSocket, PlaceType,
       OneInitialization, StartJob, Initialize, InProgress
  <2>6. LimitsGiveUp'
    BY <1>1 DEF LifeInv, TypeOK, LimitsGiveUp, CountType, PlaceType, StartJob,
       Initialize, InProgress
  <2>q. QED  BY <2>1, <2>2, <2>3, <2>4, <2>5, <2>6 DEF LifeInv, TypeOK
<1>2. CASE ReconcileSelect
  BY <1>2 DEF LifeInv, TypeOK, FlagType, CountType, PlaceType,
     OneInitialization, SetupHasNoSocket, LimitsGiveUp, ReconcileSelect
<1>3. CASE ReconcileCheck
  BY <1>3 DEF LifeInv, TypeOK, FlagType, CountType, PlaceType,
     OneInitialization, SetupHasNoSocket, LimitsGiveUp, ReconcileCheck
<1>4. CASE ReconcileStart
  BY <1>4 DEF LifeInv, TypeOK, FlagType, CountType, PlaceType,
     OneInitialization, SetupHasNoSocket, LimitsGiveUp, ReconcileStart,
     Initialize, InProgress
<1>5. CASE Boot
  BY <1>5 DEF LifeInv, TypeOK, FlagType, CountType, PlaceType,
     OneInitialization, SetupHasNoSocket, LimitsGiveUp, Boot
<1>6. CASE Crash
  <2>1. FlagType'
    BY <1>6, Zenon DEF LifeInv, TypeOK, FlagType, Crash, Released
  <2>2. CountType'
    BY <1>6 DEF LifeInv, TypeOK, CountType, LimitsGiveUp, Crash, Released
  <2>3. PlaceType'
    BY <1>6 DEF LifeInv, TypeOK, PlaceType, Crash, Released
  <2>4. OneInitialization'
    BY <1>6 DEF LifeInv, TypeOK, OneInitialization, PlaceType, Crash, Released
  <2>5. SetupHasNoSocket'
    BY <1>6 DEF LifeInv, TypeOK, SetupHasNoSocket, PlaceType,
       OneInitialization, Crash, Released
  <2>6. LimitsGiveUp'
    BY <1>6 DEF LifeInv, TypeOK, LimitsGiveUp, CountType, PlaceType, Crash,
       Released
  <2>q. QED  BY <2>1, <2>2, <2>3, <2>4, <2>5, <2>6 DEF LifeInv, TypeOK
<1>q. QED  BY <1>1, <1>2, <1>3, <1>4, <1>5, <1>6
-----------------------------------------------------------------------------

\* The session as createSession leaves it satisfies the invariant.
LEMMA InitInv == Init => LifeInv
<1> SUFFICES ASSUME Init PROVE LifeInv
  OBVIOUS
<1>1. FlagType
  BY Zenon DEF Init, FlagType
<1>2. CountType /\ PlaceType
  BY Limits DEF Init, CountType, PlaceType, Status, Caller
<1>3. OneInitialization /\ SetupHasNoSocket /\ LimitsGiveUp
  BY Limits DEF Init, OneInitialization, SetupHasNoSocket, LimitsGiveUp
<1>q. QED  BY <1>1, <1>2, <1>3 DEF LifeInv, TypeOK

\* Every step preserves the invariant.
LEMMA NextInv == LifeInv /\ [Next]_vars => LifeInv'
<1> SUFFICES ASSUME LifeInv, [Next]_vars PROVE LifeInv'
  OBVIOUS
<1>1. CASE UNCHANGED vars
  BY <1>1 DEF LifeInv, TypeOK, FlagType, CountType, PlaceType,
     OneInitialization, SetupHasNoSocket, LimitsGiveUp, vars, row, commands,
     counters, handlers
<1>2. CASE InitSteps
  BY <1>2, InitStepsInv DEF InitSteps
<1>3. CASE Handlers
  BY <1>3, ConnectionInv, RetryInv, GivingUpInv DEF Handlers
<1>4. CASE Jobs
  BY <1>4, JobsInv DEF Jobs
<1>5. CASE Runner
  BY <1>5, RunnerInv DEF Runner
<1>6. CASE Route
  BY <1>6, RoutesInv DEF Route
<1>7. CASE Whatsapp \/ SaveCreds \/ RequestRestart \/ RequestDelete
  BY <1>7, ConnectionInv, GivingUpInv, RoutesInv DEF Whatsapp
<1>8. CASE Closes
  BY <1>8, ConnectionInv DEF Closes
<1>9. CASE Faults
  BY <1>9, InitStepsInv, GivingUpInv, RunnerInv DEF Faults
<1>q. QED
  BY <1>1, <1>2, <1>3, <1>4, <1>5, <1>6, <1>7, <1>8, <1>9 DEF Next, Progress

\* Every reachable state satisfies the invariant: one initialization at a time,
\* none past its fencing check beside a socket, no retry beyond the limits.
THEOREM LifeInvariant == Spec => []LifeInv
BY InitInv, NextInv, PTL DEF Spec

\* Types, and with them the bounds of the retry counters, for all limits.
THEOREM LifeTypes == Spec => []TypeOK
<1>1. LifeInv => TypeOK
  BY DEF LifeInv
<1>q. QED  BY <1>1, LifeInvariant, PTL

\* No initialization ever overwrites a socket that nobody has ended.
THEOREM LifeNoSocketLeak == Spec => NoSocketLeak
<1> DEFINE P == (\E c \in Caller : Setup(c)) => sock = "none"
<1>1. LifeInv => P
  BY DEF LifeInv, SetupHasNoSocket, Setup
<1>2. LifeInv /\ [Next]_vars => [P]_vars
  BY <1>1
<1>q. QED  BY <1>2, LifeInvariant, PTL DEF Spec, NoSocketLeak
=============================================================================
