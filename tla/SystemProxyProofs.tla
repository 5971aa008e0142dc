------------------------------ MODULE SystemProxyProofs ------------------------------
(***************************************************************************)
(* Proofs about SystemProxy: the application is one of the clients that    *)
(* module Helper allows, so what is proved of the helper holds here.       *)
(***************************************************************************)
EXTENDS SystemProxy, HelperProofs

\* Where there is a client there is a call of MacProxy, and no connection is open
\* when the application is not there.
AppOK ==
  /\ platform \in {"mac", "windows"}
  /\ pc \in Up \cup Down
  /\ port \in Ports
  /\ session \in Connections \cup {NoConnection}
  /\ options \in Dictionaries /\ saved \in Dictionaries /\ original \in Dictionaries
  /\ calm \in 0 .. MaxMishaps /\ calm <= mishaps

AttemptsOK ==
  /\ attempts \in 0 .. 3
  /\ pc \notin {"install", "off"} => attempts = 0
  /\ pc = "install" => attempts < 3

SessionOK ==
  /\ session # NoConnection => pc \in {"probe", "enable", "disable"} /\ open[session]
  /\ platform = "windows" \/ pc \in Down \cup {"construct", "set"} =>
       session = NoConnection /\ \A c \in Connections : ~open[c]

AppInv == HelperInv /\ AppOK /\ AttemptsOK /\ SessionOK

LEMMA InitAppInv == Init => AppInv
<1> SUFFICES ASSUME Init PROVE AppInv
  OBVIOUS
<1> USE DEF Init
<1>1. HelperInv
  BY InitHelperInv
<1>2. options \in Dictionaries /\ saved \in Dictionaries /\ original \in Dictionaries
  BY DictionaryFacts DEF HelperInit, Settings
<1>3. AppOK
  BY <1>2, MaxMishapsAssumption DEF AppOK, HelperInit, Up, Down
<1>4. AttemptsOK /\ SessionOK
  BY DEF AttemptsOK, SessionOK, HelperInit, Down
<1> QED BY <1>1, <1>3, <1>4 DEF AppInv

--------------------------------------------------------------------------------
\* Every step of the application is one of the helper's clients, or none.

LEMMA Askable ==
  ASSUME AppInv, session # NoConnection
  PROVE  /\ session \in Connections
         /\ pc \in {"probe", "enable", "disable"}
         /\ Request("GetToolVersion") \in Messages /\ Request("GetProxyState") \in Messages
         /\ SetProxyState(Localhost) \in Messages
         /\ SetProxyState([ enabled |-> FALSE, host |-> saved.host ]) \in Messages
<1>1. Localhost \in ProxyStates
  BY PortsAssumption DEF AppInv, AppOK, Localhost, ProxyStates, Hosts
<1>2. [ enabled |-> FALSE, host |-> saved.host ] \in ProxyStates
  BY DEF AppInv, AppOK, Dictionaries, ProxyStates
<1> QED BY <1>1, <1>2, MessageFacts DEF AppInv, AppOK, SessionOK, MessageTypes

\* Closing connections is something a client may always do.
LEMMA ClosingIsHangingUp ==
  ASSUME NEW S \in SUBSET Connections, Closes(S), Smooth \/ Mishap
  PROVE  HelperNext
BY DEF HelperNext, HangUp

LEMMA AnsweredStep ==
  ASSUME AppInv,
         CallFails \/ Authorized \/ ShouldInstall \/ Redirect \/ AlreadyEnabled \/ StateIsSet
  PROVE  HelperNext
<1>1. session # NoConnection
  BY DEF CallFails, Authorized, ShouldInstall, Redirect, AlreadyEnabled, StateIsSet, Waiting
<1>2. Mine \in SUBSET Connections /\ \A place : Leaving(place) \in SUBSET Connections
  BY DEF Mine, Leaving
<1>3. ASSUME NEW S \in SUBSET Connections, NEW place, Drops(S, place) PROVE HelperNext
  BY <1>2, <1>3, ClosingIsHangingUp DEF Drops
<1>4. CASE CallFails
  BY <1>1, <1>3, <1>4, Askable DEF CallFails
<1>5. CASE ShouldInstall \/ AlreadyEnabled \/ StateIsSet
  BY <1>1, <1>3, <1>5, Askable DEF ShouldInstall, AlreadyEnabled, StateIsSet, Finish
<1>6. ASSUME NEW m \in Messages, Ask(session, m) PROVE HelperNext
  BY <1>1, <1>6, Askable DEF HelperNext, Client
<1>7. CASE Authorized
  BY <1>1, <1>6, <1>7, Askable DEF Authorized
<1>8. CASE Redirect
  BY <1>1, <1>6, <1>8, Askable DEF Redirect
<1> QED BY <1>4, <1>5, <1>7, <1>8

LEMMA AppStep == AppInv /\ [Next]_vars => [HelperNext]_helperVars
<1> SUFFICES ASSUME AppInv, [Next]_vars PROVE [HelperNext]_helperVars
  OBVIOUS
<1>1. CASE UNCHANGED vars
  BY <1>1 DEF vars
<1>2. CASE Start \/ Close
  BY <1>2 DEF Start, Close
<1>3. CASE InitAuth \/ QueryOptions \/ SetOptions \/ RestoreOptions
  BY <1>3 DEF InitAuth, QueryOptions, SetOptions, RestoreOptions, HelperNext,
              ElsewhereFails, helperVars, Smooth
<1>4. CASE OpenClient
  BY <1>4 DEF OpenClient, HelperNext, Client
<1>5. CASE NoClient \/ BlessFails \/ Crash
  BY <1>5, ClosingIsHangingUp DEF NoClient, BlessFails, Crash, Leaving, Mine
<1>6. CASE CallFails \/ Authorized \/ ShouldInstall \/ Redirect \/ AlreadyEnabled \/ StateIsSet
  BY <1>6, AnsweredStep
<1>7. CASE Bless
  BY <1>7 DEF Bless, HelperNext
<1>8. CASE HelperStep
  BY <1>8 DEF HelperStep, HelperNext
<1>9. CASE Intervention
  BY <1>9 DEF Intervention, HelperNext, ElsewhereFails
<1> QED BY <1>1, <1>2, <1>3, <1>4, <1>5, <1>6, <1>7, <1>8, <1>9 DEF Next, Works

--------------------------------------------------------------------------------
\* The invariant of the application's own state.

LEMMA AppOKKept == AppInv /\ [Next]_vars => AppOK'
<1> SUFFICES ASSUME AppInv, [Next]_vars PROVE AppOK'
  OBVIOUS
<1> USE DEF AppInv, AppOK, Up, Down
<1>0. CountOK' /\ mishaps' >= mishaps
  BY AppStep, CountKept
<1>1. CASE UNCHANGED vars
  BY <1>1 DEF vars, app, mac, kept, helperVars
<1>2. CASE Start
  <2>1. NoDictionary \in Dictionaries /\ Settings \in Dictionaries
    BY DictionaryFacts DEF Settings, HelperInv, StoreOK
  <2> QED BY <1>2, <2>1 DEF Start, HelperInv, CountOK, helperVars
<1>3. CASE Close
  BY <1>3 DEF Close, app, mac, kept, helperVars
<1>4. CASE InitAuth \/ OpenClient
  BY <1>0, <1>4 DEF InitAuth, OpenClient, app, mac, kept, HelperInv, CountOK
<1>5. CASE NoClient
  BY <1>0, <1>5 DEF NoClient, AfterFailure, app, mac, kept, HelperInv, CountOK
<1>6. CASE QueryOptions \/ SetOptions \/ RestoreOptions
  <2>1. WindowsOptions \in Dictionaries
    BY PortsAssumption DEF WindowsOptions, Dictionaries, Hosts
  <2> QED BY <1>0, <1>6, <2>1
          DEF QueryOptions, SetOptions, RestoreOptions, app, mac, kept, HelperInv, CountOK
<1>7. CASE CallFails \/ ShouldInstall \/ AlreadyEnabled \/ StateIsSet
  <2>1. pc \in {"probe", "enable", "disable"}
    BY <1>7, Askable DEF CallFails, ShouldInstall, AlreadyEnabled, StateIsSet, Waiting
  <2> QED BY <1>0, <1>7, <2>1
          DEF CallFails, ShouldInstall, AlreadyEnabled, StateIsSet, Finish, Drops,
              AfterFailure, app, mac, kept, HelperInv, CountOK
<1>8. CASE Authorized
  BY <1>0, <1>8 DEF Authorized, app, mac, kept, HelperInv, CountOK
<1>9. CASE Redirect
  <2>1. reply[session].state.host \in Hosts
    BY <1>9 DEF Redirect, Waiting, HelperInv, ReplyOK, Replies, ProxyStates
  <2>2. [ saved EXCEPT !.host = reply[session].state.host ] \in Dictionaries
    BY <2>1 DEF Dictionaries
  <2> QED BY <1>0, <1>9, <2>2 DEF Redirect, app, mac, kept, HelperInv, CountOK
<1>10. CASE Bless \/ BlessFails
  BY <1>0, <1>10 DEF Bless, BlessFails, app, mac, kept, HelperInv, CountOK
<1>11. CASE Crash \/ HelperStep \/ Intervention
  BY <1>0, <1>11 DEF Crash, HelperStep, Intervention, app, mac, kept, HelperInv, CountOK
<1> QED BY <1>1, <1>2, <1>3, <1>4, <1>5, <1>6, <1>7, <1>8, <1>9, <1>10, <1>11 DEF Next, Works

LEMMA AttemptsKept == AppInv /\ [Next]_vars => AttemptsOK'
<1> SUFFICES ASSUME AppInv, [Next]_vars PROVE AttemptsOK'
  OBVIOUS
<1> USE DEF AppInv, AttemptsOK
<1>1. CASE UNCHANGED vars
  BY <1>1 DEF vars, mac
<1>2. CASE CallFails \/ ShouldInstall \/ AlreadyEnabled \/ StateIsSet
  <2>1. pc \in {"probe", "enable", "disable"}
    BY <1>2, Askable DEF CallFails, ShouldInstall, AlreadyEnabled, StateIsSet, Waiting
  <2> QED BY <1>2, <2>1
          DEF CallFails, ShouldInstall, AlreadyEnabled, StateIsSet, Finish, Drops, AfterFailure
<1>3. CASE InitAuth \/ OpenClient \/ NoClient \/ Authorized \/ Redirect \/ Bless \/ BlessFails
  BY <1>3 DEF InitAuth, OpenClient, NoClient, AfterFailure, Authorized, Redirect, Bless,
              BlessFails, mac
<1>4. CASE Start \/ Close \/ QueryOptions \/ SetOptions \/ RestoreOptions
           \/ Crash \/ HelperStep \/ Intervention
  BY <1>4 DEF Start, Close, QueryOptions, SetOptions, RestoreOptions, Crash, HelperStep,
              Intervention, mac
<1> QED BY <1>1, <1>2, <1>3, <1>4 DEF Next, Works

\* The helper's own steps open and close no connection.
LEMMA ServesKeepsOpen ==
  ASSUME HelperInv, NEW c \in Connections, Serves(c)
  PROVE  UNCHANGED open
BY DEF Serves, NoService, Accept, Drop, Greet, Refuse, Dispatch, Lost, CleanUpConnection,
       AssertRight, GetCurrentVersion, GetHttpProxyState, Lock, EditConfiguration,
       CommitChanges, ApplyChanges, Unlock, link

\* The end of the process leaves no connection open.
LEMMA NothingLeft ==
  ASSUME NEW S \in SUBSET Connections, NEW place, place \in Down,
         Closes(S \cup Leaving(place))
  PROVE  \A c \in Connections : ~open'[c]
BY DEF Closes, Leaving, Mine

LEMMA SessionKept == AppInv /\ [Next]_vars => SessionOK'
<1> SUFFICES ASSUME AppInv, [Next]_vars PROVE SessionOK'
  OBVIOUS
<1> USE DEF AppInv, SessionOK
<1>1. CASE UNCHANGED vars
  BY <1>1 DEF vars, app, mac, helperVars, helper, link
<1>2. CASE Start \/ Close
  BY <1>2 DEF Start, Close, app, mac, helperVars, helper, link, Up, Down
<1>3. CASE InitAuth \/ QueryOptions \/ SetOptions \/ RestoreOptions
  <2>1. UNCHANGED << open, session, platform >>
    BY <1>3 DEF InitAuth, QueryOptions, SetOptions, RestoreOptions, app, mac, helper, link
  <2>2. session = NoConnection /\ (pc = "construct" \/ platform = "windows" \/ pc = "set")
    BY <1>3 DEF InitAuth, QueryOptions, SetOptions, RestoreOptions
  <2>3. pc = "set" => pc' \in {"running", "off"}
    BY <1>3 DEF InitAuth, QueryOptions, SetOptions, RestoreOptions
  <2>4. CASE InitAuth
    BY <2>1, <2>4 DEF InitAuth, Down
  <2>5. CASE QueryOptions \/ RestoreOptions
    BY <2>1, <2>5 DEF QueryOptions, RestoreOptions, Down
  <2>6. CASE SetOptions
    BY <2>1, <2>6 DEF SetOptions, Down
  <2> QED BY <1>3, <2>4, <2>5, <2>6
<1>4. CASE OpenClient
  BY <1>4 DEF OpenClient, Connect, app, Down, HelperInv, LinkOK
<1>5. CASE NoClient
  <2>1. platform # "windows" /\ session' = NoConnection /\ pc' \notin {"construct", "set"}
    BY <1>5 DEF NoClient, AfterFailure, mac
  <2>2. pc' \in Down => \A c \in Connections : ~open'[c]
    BY <1>5 DEF NoClient, Closes, Leaving, Mine
  <2> QED BY <1>5, <2>1, <2>2 DEF NoClient, app
<1>6. CASE CallFails \/ ShouldInstall \/ AlreadyEnabled \/ StateIsSet
  <2>1. session \in Connections /\ pc \in {"probe", "enable", "disable"}
    BY <1>6, Askable DEF CallFails, ShouldInstall, AlreadyEnabled, StateIsSet, Waiting
  <2>2. \E S \in SUBSET Connections : Drops(S, pc') /\ pc' \notin {"construct", "set"} /\ UNCHANGED platform
    BY <1>6, <2>1 DEF CallFails, ShouldInstall, AlreadyEnabled, StateIsSet, Finish, Drops,
                      AfterFailure, app
  <2>3. session' = NoConnection /\ (pc' \in Down => \A c \in Connections : ~open'[c])
    BY <2>2, NothingLeft DEF Drops
  <2>4. platform # "windows"
    BY <1>6 DEF CallFails, ShouldInstall, AlreadyEnabled, StateIsSet, Waiting
  <2> QED BY <2>2, <2>3, <2>4
<1>7. CASE Authorized \/ Redirect
  BY <1>7 DEF Authorized, Redirect, Ask, app, mac, link
<1>8. CASE Bless
  BY <1>8 DEF Bless, Install, HelperEnds, app, Down
<1>9. CASE BlessFails
  <2>1. session' = NoConnection /\ UNCHANGED platform /\ pc' \notin {"construct", "set"}
    BY <1>9 DEF BlessFails, app
  <2>2. pc' \in Down => \A c \in Connections : ~open'[c]
    BY <1>9 DEF BlessFails, Closes, Leaving, Mine
  <2>3. platform = "windows" => \A c \in Connections : ~open'[c]
    BY <1>9 DEF BlessFails, Closes
  <2> QED BY <2>1, <2>2, <2>3
<1>10. CASE Crash
  BY <1>10 DEF Crash, Closes, Mine
<1>11. CASE HelperStep \/ Intervention
  <2>1. UNCHANGED << open, session, platform, pc >>
    BY <1>11, ServesKeepsOpen
       DEF HelperStep, Intervention, HelperCrashes, HelperEnds, SomeoneElseChanges, app, mac,
           helper, link
  <2> QED BY <2>1
<1> QED BY <1>1, <1>2, <1>3, <1>4, <1>5, <1>6, <1>7, <1>8, <1>9, <1>10, <1>11 DEF Next, Works

LEMMA NextKeepsAppInv == AppInv /\ [Next]_vars => AppInv'
<1>1. AppInv /\ [Next]_vars => HelperInv'
  BY AppStep, NextKeepsHelperInv DEF AppInv
<1> QED BY <1>1, AppOKKept, AttemptsKept, SessionKept DEF AppInv

LEMMA AlwaysAppInv == Spec => []AppInv
BY InitAppInv, NextKeepsAppInv, PTL DEF Spec

--------------------------------------------------------------------------------
\* MacProxy and WindowsProxy are always at a place of their code, with what they
\* keep there.
THEOREM AppTypeCorrect == Spec => []TypeOK
<1>1. AppInv => HelperTypeOK
  BY DEF AppInv, HelperInv, HelperTypeOK, StoreOK, LinkOK, StageOK, DraftOK, ReplyOK, CountOK
<1>2. AppInv => TypeOK
  BY <1>1 DEF AppInv, AppOK, AttemptsOK, TypeOK
<1> QED BY <1>2, AlwaysAppInv, PTL

\* The application, through all its calls, crashes and leaked connections, is a
\* client the helper's specification allows: the theorems of HelperProofs hold of
\* the two together.
THEOREM AppUsesHelper == Spec => UsesHelperAsSpecified
<1>1. Init => HelperInit
  BY DEF Init
<1>2. Spec => HelperInit /\ [][HelperNext]_helperVars
  BY <1>1, AppStep, AlwaysAppInv, PTL DEF Spec
<1> QED BY <1>2, PTL DEF UsesHelperAsSpecified, HelperSpec
================================================================================
