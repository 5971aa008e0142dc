-------------------------------- MODULE SettingsProofs --------------------------------
(***************************************************************************)
(* Proofs about what the application does to the system's settings, from   *)
(* its start to its end: what is stored and in force at each place of an   *)
(* exchange with the helper that nothing disturbs.                         *)
(***************************************************************************)
EXTENDS SystemProxyProofs

\* A helper that serves a client once serves the next one as well: it stays
\* installed, and stays able to see that a signature is valid.
HelperServes == IsClientSignatureValid /\ tool # "absent"
ServedOnlyIfValid == \A c \in Connections : conn[c] = "served" => HelperServes

Type    == message[session].type
Setting == session # NoConnection /\ Type = "SetProxyState"
Before  == ~Setting \/ stage[session] \in {"sent", "authorize", "lock", "edit", "commit"}
Halfway == Setting /\ stage[session] = "apply"

\* The settings the application found, made, and leaves.
Both(dictionary) == stored = dictionary /\ applied = dictionary
Found        == StateOf(original) = Localhost
Redirected   == Edited(original, Localhost)
WhileRunning == IF Found THEN original ELSE Redirected
ToRestore    == [ enabled |-> FALSE, host |-> saved.host ]
Restored     == Edited(WhileRunning, ToRestore)

\* No handler but that of the application's own connection is at work.
Alone == \A c \in Connections : c # session => stage[c] = "idle"

\* What the application asks where, and that only a Hello may fail.
Conversation ==
  session # NoConnection =>
    /\ pc = "probe"   => Type \in {"Hello", "GetToolVersion"}
    /\ pc = "enable"  => Type \in {"Hello", "GetProxyState", "SetProxyState"}
    /\ pc = "disable" => Type \in {"Hello", "SetProxyState"}
    /\ Type # "Hello" => session \in known /\ reply[session].type # "Error"
    /\ Type = "Hello" => stage[session] \in {"idle", "sent"}
    /\ Type = "Hello" /\ stage[session] = "sent" => session \notin known
    /\ reply[session].type = "Hello" => session \in known
    /\ pc = "disable" => reply[session].type # "Error"

Untouched ==
  /\ pc \in {"off", "construct", "probe", "install"} => Both(original)
  /\ pc \in {"construct", "probe", "install"} => saved = NoDictionary

Enabling ==
  pc = "enable" =>
    /\ ~Setting => saved = NoDictionary
    /\ Setting => saved.host = original.host /\ ~Found /\ message[session].state = Localhost
    /\ session # NoConnection /\ reply[session].type = "GetProxyState" =>
         reply[session].state = StateOf(original)
    /\ Before => Both(original)
    /\ Halfway => stored = Redirected /\ applied = original
    /\ ~Before /\ ~Halfway => Both(Redirected)

Keeping ==
  pc \in {"running", "disable"} =>
    /\ HelperServes
    /\ saved.host = IF Found THEN NoAddress ELSE original.host

Disabling ==
  /\ pc = "running" => Both(WhileRunning)
  /\ pc = "disable" =>
       /\ Setting => message[session].state = ToRestore
       /\ Before => Both(WhileRunning)
       /\ Halfway => stored = Restored /\ applied = WhileRunning
       /\ ~Before /\ ~Halfway => Both(Restored)

Closed == pc = "closed" => Both(Restored) /\ saved.host = IF Found THEN NoAddress ELSE original.host

Exchange == /\ Alone /\ Conversation
            /\ Untouched /\ Enabling /\ Keeping /\ Disabling /\ Closed

Undisturbed == platform = "mac" /\ Untroubled

\* On Windows there is no helper, and each change is one step.
WindowsExchange ==
  platform = "windows" =>
    /\ stored = NoDictionary /\ applied = NoDictionary
    /\ \A c \in Connections : stage[c] = "idle"
    /\ pc \in {"off", "closed", "construct", "set", "running", "disable"}
    /\ Untroubled => /\ pc \in {"off", "closed", "construct", "set"} => options = original
                     /\ pc \in {"set", "running", "disable"} => saved = original

MacHasNoOptions == platform = "mac" => pc # "set"

SettingsInv == /\ AppInv
               /\ MacHasNoOptions
               /\ ServedOnlyIfValid
               /\ Undisturbed => Exchange
               /\ WindowsExchange

--------------------------------------------------------------------------------
\* What the definitions amount to.

LEMMA PortFacts ==
  ASSUME AppInv
  PROVE  /\ port # NoAddress /\ Localhost \in ProxyStates
         /\ original \in Dictionaries /\ StateOf(original) \in ProxyStates
         /\ Redirected \in Dictionaries /\ StateOf(Redirected) = Localhost
<1>1. port \in Addresses /\ port # NoAddress
  BY PortsAssumption, AddressesAssumption DEF AppInv, AppOK
<1>2. Localhost \in ProxyStates
  BY <1>1 DEF Localhost, ProxyStates, Hosts
<1>3. original \in Dictionaries
  BY DEF AppInv, AppOK
<1>4. StateOf(Redirected) = Localhost
  BY <1>1, <1>3 DEF Redirected, Edited, StateOf, Localhost, Dictionaries
<1> QED BY <1>1, <1>2, <1>3, <1>4, DictionaryFacts DEF Redirected

\* What is restored: no proxy that is enabled, and the one that was there.
LEMMA WhatIsRestored ==
  ASSUME AppInv, platform = "mac",
         saved.host = IF Found THEN NoAddress ELSE original.host
  PROVE  /\ ~Restored.enabled
         /\ HadProxy => Restored.host = original.host /\ Restored.rest = original.rest
<1>1. CASE Found
  BY <1>1 DEF Restored, Edited, ToRestore, HadProxy, Found, NoDictionary
<1>2. CASE ~Found /\ original.host = NoAddress
  BY <1>2 DEF Restored, Edited, ToRestore, HadProxy, Found, NoDictionary
<1>3. CASE ~Found /\ original.host # NoAddress
  <2>1. Restored = [ Redirected EXCEPT !.enabled = FALSE, !.host = original.host ]
    BY <1>3 DEF Restored, Edited, ToRestore, WhileRunning
  <2>2. Redirected = [ original EXCEPT !.enabled = TRUE, !.host = port ]
    BY PortFacts DEF Redirected, Edited, Localhost
  <2>3. Restored = [ original EXCEPT !.enabled = FALSE ]
    BY <2>1, <2>2, PortFacts DEF Dictionaries
  <2> QED BY <2>3, PortFacts DEF Dictionaries
<1> QED BY <1>1, <1>2, <1>3

LEMMA InitSettingsInv == Init => SettingsInv
<1> SUFFICES ASSUME Init PROVE SettingsInv
  OBVIOUS
<1>1. AppInv
  BY InitAppInv
<1>2. ServedOnlyIfValid /\ Alone
  BY DEF Init, HelperInit, ServedOnlyIfValid, Alone
<1>3. platform = "mac" => Exchange
  BY <1>2 DEF Init, HelperInit, Exchange, Conversation, Untouched, Enabling, Keeping,
              Disabling, Closed, Both, Settings
<1>4. WindowsExchange
  BY DEF Init, HelperInit, WindowsExchange, Settings
<1> QED BY <1>1, <1>2, <1>3, <1>4 DEF SettingsInv, Undisturbed, MacHasNoOptions, Init

--------------------------------------------------------------------------------
\* A helper that served goes on serving.

LEMMA ServedKeptValid ==
  HelperInv /\ ServedOnlyIfValid /\ [HelperNext]_helperVars => ServedOnlyIfValid'
<1> SUFFICES ASSUME HelperInv, ServedOnlyIfValid, [HelperNext]_helperVars
             PROVE  ServedOnlyIfValid'
  OBVIOUS
<1> USE DEF HelperInv, LinkOK, ServedOnlyIfValid, HelperServes, IsClientSignatureValid
<1>1. CASE UNCHANGED helperVars
  BY <1>1 DEF helperVars, helper, link
<1>2. ASSUME NEW c \in Connections, Serves(c) PROVE ServedOnlyIfValid'
  BY <1>2 DEF Serves, NoService, Accept, Drop, Greet, Refuse, Dispatch, Lost, CleanUpConnection,
              AssertRight, GetCurrentVersion, GetHttpProxyState, Lock, EditConfiguration,
              CommitChanges, ApplyChanges, Unlock, link
<1>3. ASSUME NEW c \in Connections, Client(c) PROVE ServedOnlyIfValid'
  BY <1>3 DEF Client, Connect, Ask, link
<1>4. ASSUME NEW S \in SUBSET Connections, HangUp(S) PROVE ServedOnlyIfValid'
  BY <1>4 DEF HangUp, Closes
<1>5. CASE HelperCrashes \/ Install
  BY <1>5 DEF HelperCrashes, Install, HelperEnds
<1>6. CASE SomeoneElseChanges \/ ElsewhereFails
  BY <1>6 DEF SomeoneElseChanges, ElsewhereFails, helper, link
<1> QED BY <1>1, <1>2, <1>3, <1>4, <1>5, <1>6 DEF HelperNext

--------------------------------------------------------------------------------
\* Trouble does not go away, except by a new start.
LEMMA StaysUndisturbed ==
  ASSUME AppInv, Next, ~Start, Untroubled'
  PROVE  Untroubled /\ Smooth /\ UNCHANGED << platform, port, original, calm >>
<1>1. UNCHANGED << platform, port, original, calm >>
  BY DEF Next, Works, InitAuth, OpenClient, NoClient, CallFails, Authorized, ShouldInstall,
         Redirect, AlreadyEnabled, StateIsSet, Bless, BlessFails, QueryOptions, SetOptions,
         RestoreOptions, Close, Crash, HelperStep, Intervention, app, kept
<1>2. mishaps' >= mishaps /\ mishaps \in Nat /\ calm \in Nat /\ calm <= mishaps /\ mishaps' \in Nat
  BY AppStep, CountKept, MaxMishapsAssumption DEF AppInv, AppOK, HelperInv, CountOK
<1> QED BY <1>1, <1>2 DEF Untroubled, Smooth

\* While nothing goes wrong, nobody but the application's own handler does
\* anything, and it does not fail.
LEMMA StartsQuiet ==
  ASSUME SettingsInv, pc \in Down, Untroubled
  PROVE  Quiet
<1> USE DEF SettingsInv, AppInv, AppOK
<1>1. CASE platform = "windows"
  BY <1>1 DEF WindowsExchange, Quiet
<1>2. CASE platform = "mac"
  <2>1. Exchange
    BY <1>2 DEF Undisturbed
  <2>2. applied = stored
    BY <2>1 DEF Exchange, Untouched, Closed, Both, Down
  <2>3. session = NoConnection
    BY DEF SessionOK
  <2> QED BY <2>1, <2>2, <2>3, ConnectionsAssumption DEF Exchange, Alone, Quiet
<1> QED BY <1>1, <1>2

LEMMA StartKeeps ==
  ASSUME SettingsInv, Start, AppInv'
  PROVE  (Undisturbed => Exchange)' /\ WindowsExchange'
<1> USE DEF SettingsInv, AppInv
<1>1. UNCHANGED << stored, applied, stage, platform, options, session, mishaps, open, signing, tool >>
  BY DEF Start, helperVars, helper, settings, link, handling
<1>2. session = NoConnection /\ \A c \in Connections : ~open[c]
  BY DEF Start, SessionOK
<1>3. pc' = "construct" /\ original' = Settings /\ saved' = NoDictionary
  BY DEF Start
<1>4. ASSUME Undisturbed' PROVE Exchange'
  <2>1. Quiet
    BY <1>1, <1>4, StartsQuiet DEF Start, Undisturbed, Untroubled
  <2>2. Alone'
    BY <1>1, <1>2, <2>1 DEF Quiet, Alone
  <2>3. Both(original)'
    BY <1>1, <1>3, <1>4, <2>1 DEF Both, Quiet, Settings, Undisturbed
  <2>4. Conversation'
    BY <1>1, <1>2 DEF Conversation
  <2> QED BY <1>3, <2>2, <2>3, <2>4
          DEF Exchange, Untouched, Enabling, Keeping, Disabling, Closed
<1>5. WindowsExchange'
  BY <1>1, <1>3 DEF WindowsExchange, Settings
<1> QED BY <1>4, <1>5

--------------------------------------------------------------------------------
\* The exchange, one step of the application at a time.

\* All handlers are idle where the application has no connection.
LEMMA AllIdle ==
  ASSUME AppInv, Exchange
  PROVE  /\ session = NoConnection => \A c \in Connections : stage[c] = "idle"
         /\ session # NoConnection /\ reply[session] # NoReply =>
              /\ stage[session] = "idle"
              /\ reply[session].type \in {Type, "Error"}
              /\ \A c \in Connections : stage[c] = "idle"
BY ConnectionsAssumption
   DEF AppInv, AppOK, HelperInv, AnswersFit, Exchange, Alone, Type

LEMMA InitAuthKeeps ==
  ASSUME AppInv, Exchange, InitAuth, Smooth, UNCHANGED << port, original >>
  PROVE  Exchange'
<1>1. pc = "construct" /\ pc' = "probe" /\ UNCHANGED << helper, session, saved >>
  BY DEF InitAuth, Mishap, Smooth, mac, kept, AppInv, HelperInv, CountOK
<1>2. session = NoConnection
  BY <1>1 DEF AppInv, SessionOK
<1> QED BY <1>1, <1>2
        DEF Exchange, Alone, Conversation, Untouched, Enabling, Keeping, Disabling, Closed,
            Both, helper, settings, handling

LEMMA OpenClientKeeps ==
  ASSUME AppInv, Exchange, OpenClient, UNCHANGED << port, original >>
  PROVE  Exchange'
<1> USE DEF AppInv, HelperInv
<1>1. /\ session = NoConnection /\ pc' = pc /\ pc \in {"probe", "enable", "disable"}
      /\ UNCHANGED << stored, applied, known, tool, signing, saved >>
  BY DEF OpenClient, Connect, settings, kept
<1>2. PICK c \in Connections : Connect(c) /\ session' = c
  BY DEF OpenClient
<1>3. c # NoConnection /\ c \notin known
  BY <1>2, ConnectionsAssumption DEF Connect, RecordsOfTheLiving
<1>4. /\ message'[c] = Request("Hello") /\ Request("Hello").type = "Hello"
      /\ stage'[c] = "sent" /\ reply'[c] = NoReply /\ NoReply.type = "none"
      /\ \A k \in Connections : k # c => stage'[k] = stage[k]
  BY <1>2, MessageFacts, ReplyFacts
     DEF Connect, Sends, StageOK, ReplyOK, MessageTypes, NoReply
<1>5. Type' = "Hello" /\ ~Setting'
  BY <1>2, <1>4 DEF Type, Setting
<1>6. Alone'
  BY <1>1, <1>2, <1>4, AllIdle DEF Alone
<1>7. Conversation'
  BY <1>1, <1>2, <1>3, <1>4, <1>5 DEF Conversation
<1>8. Untouched' /\ Keeping' /\ Closed'
  <2>1. UNCHANGED << Found, HelperServes >>
    BY <1>1 DEF Found, Localhost, HelperServes, IsClientSignatureValid
  <2> QED BY <1>1, <2>1 DEF Exchange, Untouched, Keeping, Closed, Both
<1>9. Enabling' /\ Disabling'
  BY <1>1, <1>2, <1>4, <1>5
     DEF Exchange, Enabling, Disabling, Setting, Before, Halfway, Both, WhileRunning, Found,
         Redirected, Localhost
<1> QED BY <1>6, <1>7, <1>8, <1>9 DEF Exchange

\* Whatever ends a call leaves the helper idle.
LEMMA DropsKeepsAlone ==
  ASSUME AppInv, Exchange, session # NoConnection, reply[session] # NoReply,
         NEW S, NEW place, Drops(S, place)
  PROVE  /\ Alone' /\ Conversation' /\ session' = NoConnection /\ ~Setting'
         /\ UNCHANGED << stored, applied, tool, signing >>
BY AllIdle DEF Drops, Closes, Alone, Conversation, Setting, settings

LEMMA CallFailsKeeps ==
  ASSUME AppInv, Exchange, CallFails, UNCHANGED << port, original >>
  PROVE  Exchange'
<1>1. /\ session # NoConnection /\ reply[session] # NoReply /\ reply[session].type = "Error"
      /\ pc \in {"probe", "enable", "disable"} /\ UNCHANGED saved
  BY Askable DEF CallFails, Waiting, Answered, kept
<1>2. Type = "Hello" /\ pc # "disable"
  BY <1>1 DEF Exchange, Conversation
<1>3. pc' = AfterFailure /\ \E S : Drops(S, AfterFailure)
  BY DEF CallFails, Drops
<1>4. Alone' /\ Conversation' /\ session' = NoConnection /\ UNCHANGED << stored, applied >>
  BY <1>1, <1>3, DropsKeepsAlone
<1>5. Both(original) /\ saved = NoDictionary
  BY <1>1, <1>2 DEF Exchange, Untouched, Enabling, Before, Setting
<1> QED BY <1>1, <1>2, <1>3, <1>4, <1>5
        DEF Exchange, AfterFailure, Untouched, Enabling, Keeping, Disabling, Closed, Both

LEMMA ShouldInstallKeeps ==
  ASSUME AppInv, Exchange, ShouldInstall, UNCHANGED << port, original >>
  PROVE  Exchange'
<1>1. /\ session # NoConnection /\ reply[session] # NoReply
      /\ reply[session].type = "GetToolVersion" /\ UNCHANGED saved
  BY DEF ShouldInstall, Waiting, Answered, kept
<1>2. pc = "probe"
  BY <1>1, AllIdle, Askable DEF Exchange, Conversation
<1>3. pc' \in {"enable", "install"} /\ Drops({session}, pc')
  BY DEF ShouldInstall, Finish, Drops
<1>4. /\ Alone' /\ Conversation' /\ session' = NoConnection /\ ~Setting'
      /\ UNCHANGED << stored, applied >>
  BY <1>1, <1>3, DropsKeepsAlone
<1>5. Both(original) /\ saved = NoDictionary
  BY <1>2 DEF Exchange, Untouched
<1> QED BY <1>1, <1>3, <1>4, <1>5
        DEF Exchange, Untouched, Enabling, Keeping, Disabling, Closed, Both, Before, Halfway,
            Setting

\* A message of the application, sent when it has its answer to the one before.
LEMMA AskFacts ==
  ASSUME AppInv, Exchange, NEW m, Ask(session, m), session # NoConnection,
         session' = session
  PROVE  /\ stage'[session] = "sent" /\ message'[session] = m
         /\ reply'[session].type = "none" /\ Type' = m.type
         /\ Alone'
         /\ UNCHANGED << stored, applied, known, conn, tool, signing >>
<1>1. session \in Connections
  BY Askable
<1>2. NoReply.type = "none"
  BY ReplyFacts DEF NoReply
<1> QED BY <1>1, <1>2
        DEF Ask, Sends, Type, Exchange, Alone, settings, link, AppInv, HelperInv, StageOK, ReplyOK

LEMMA AuthorizedKeeps ==
  ASSUME AppInv, Exchange, Authorized, UNCHANGED << port, original >>
  PROVE  Exchange'
<1>1. /\ session # NoConnection /\ reply[session] # NoReply
      /\ reply[session].type = "Hello"
      /\ UNCHANGED << pc, session, saved >>
  BY DEF Authorized, Waiting, Answered, mac, kept
<1>2. Type = "Hello" /\ session \in known /\ pc \in {"probe", "enable", "disable"}
  BY <1>1, AllIdle, Askable DEF Exchange, Conversation
<1>3. ~Setting /\ Before
  BY <1>2 DEF Setting, Before
<1>4. CASE pc = "probe"
  <2>1. Ask(session, Request("GetToolVersion"))
    BY <1>4 DEF Authorized
  <2>2. Request("GetToolVersion").type = "GetToolVersion"
    BY MessageFacts DEF MessageTypes
  <2>3. /\ Alone' /\ Type' = "GetToolVersion" /\ UNCHANGED << stored, applied, known >>
        /\ reply'[session].type = "none"
    BY <1>1, <2>1, <2>2, AskFacts
  <2>4. Conversation'
    BY <1>1, <1>2, <1>4, <2>3 DEF Conversation
  <2> QED BY <1>1, <1>4, <2>3, <2>4
          DEF Exchange, Untouched, Enabling, Keeping, Disabling, Closed, Both
<1>5. CASE pc = "enable"
  <2>1. Ask(session, Request("GetProxyState"))
    BY <1>5 DEF Authorized
  <2>2. Request("GetProxyState").type = "GetProxyState"
    BY MessageFacts DEF MessageTypes
  <2>3. /\ Alone' /\ Type' = "GetProxyState" /\ UNCHANGED << stored, applied, known >>
        /\ reply'[session].type = "none"
    BY <1>1, <2>1, <2>2, AskFacts
  <2>4. Conversation'
    BY <1>1, <1>2, <1>5, <2>3 DEF Conversation
  <2>5. ~Setting'
    BY <2>3 DEF Setting
  <2> QED BY <1>1, <1>3, <1>5, <2>3, <2>4, <2>5
          DEF Exchange, Untouched, Enabling, Keeping, Disabling, Closed, Both, Before, Halfway
<1>6. CASE pc = "disable"
  <2>1. Ask(session, SetProxyState(ToRestore))
    BY <1>6 DEF Authorized, ToRestore
  <2>2. SetProxyState(ToRestore).type = "SetProxyState" /\ SetProxyState(ToRestore).state = ToRestore
    BY DEF SetProxyState
  <2>3. /\ Alone' /\ Type' = "SetProxyState"
        /\ UNCHANGED << stored, applied, known, tool, signing >>
        /\ reply'[session].type = "none" /\ stage'[session] = "sent"
        /\ message'[session].state = ToRestore
    BY <1>1, <2>1, <2>2, AskFacts
  <2>4. Conversation'
    BY <1>1, <1>2, <1>6, <2>3 DEF Conversation
  <2>5. Setting' /\ Before' /\ ~Halfway'
    BY <1>1, <2>3 DEF Setting, Before, Halfway
  <2>6. Disabling'
    BY <1>1, <1>3, <1>6, <2>3, <2>5
       DEF Exchange, Disabling, Both, WhileRunning, Found, Redirected, Localhost, ToRestore
  <2>7. Keeping'
    BY <1>1, <2>3 DEF Exchange, Keeping, HelperServes, IsClientSignatureValid, Found, Localhost
  <2> QED BY <1>1, <1>6, <2>3, <2>4, <2>6, <2>7
          DEF Exchange, Untouched, Enabling, Closed
<1> QED BY <1>2, <1>4, <1>5, <1>6

LEMMA RedirectKeeps ==
  ASSUME AppInv, Exchange, Redirect, UNCHANGED << port, original >>
  PROVE  Exchange'
<1>1. /\ session # NoConnection /\ reply[session] # NoReply
      /\ reply[session].type = "GetProxyState" /\ reply[session].state # Localhost
      /\ Ask(session, SetProxyState(Localhost))
      /\ saved' = [ saved EXCEPT !.host = reply[session].state.host ]
      /\ UNCHANGED << pc, session >>
  BY DEF Redirect, Waiting, Answered, mac
<1>2. Type = "GetProxyState" /\ pc = "enable" /\ session \in known
  BY <1>1, AllIdle, Askable DEF Exchange, Conversation
<1>3. /\ ~Setting /\ Before /\ saved = NoDictionary /\ Both(original)
      /\ reply[session].state = StateOf(original)
  BY <1>1, <1>2 DEF Setting, Before, Exchange, Enabling
<1>4. ~Found /\ saved'.host = original.host
  BY <1>1, <1>3 DEF Found, StateOf, NoDictionary
<1>5. SetProxyState(Localhost).type = "SetProxyState" /\ SetProxyState(Localhost).state = Localhost
  BY DEF SetProxyState
<1>6. /\ Alone' /\ Type' = "SetProxyState" /\ UNCHANGED << stored, applied, known >>
      /\ reply'[session].type = "none" /\ stage'[session] = "sent"
      /\ message'[session].state = Localhost
  BY <1>1, <1>5, AskFacts
<1>7. Conversation'
  BY <1>1, <1>2, <1>6 DEF Conversation
<1>8. Setting' /\ Before' /\ ~Halfway' /\ Both(original)' /\ ~Found'
  BY <1>1, <1>3, <1>4, <1>6 DEF Setting, Before, Halfway, Both, Found, Localhost
<1>9. Enabling'
  BY <1>1, <1>4, <1>6, <1>8 DEF Enabling, Localhost
<1> QED BY <1>1, <1>2, <1>6, <1>7, <1>9
        DEF Exchange, Untouched, Keeping, Disabling, Closed

LEMMA AlreadyEnabledKeeps ==
  ASSUME AppInv, ServedOnlyIfValid, Exchange, AlreadyEnabled, UNCHANGED << port, original >>
  PROVE  Exchange'
<1>1. /\ session # NoConnection /\ reply[session] # NoReply
      /\ reply[session].type = "GetProxyState" /\ reply[session].state = Localhost
      /\ Drops({session}, "running") /\ pc' = "running" /\ UNCHANGED saved
  BY DEF AlreadyEnabled, Waiting, Answered, Finish, Drops, kept
<1>2. Type = "GetProxyState" /\ pc = "enable" /\ session \in known
  BY <1>1, AllIdle, Askable DEF Exchange, Conversation
<1>3. saved = NoDictionary /\ Both(original) /\ Found
  BY <1>1, <1>2 DEF Setting, Before, Exchange, Enabling, Found
<1>4. HelperServes
  BY <1>2 DEF ServedOnlyIfValid, AppInv, HelperInv, LinkOK, RecordsOfTheLiving
<1>5. Alone' /\ Conversation' /\ UNCHANGED << stored, applied, tool, signing >>
  BY <1>1, DropsKeepsAlone
<1>6. Keeping' /\ Disabling'
  BY <1>1, <1>3, <1>4, <1>5
     DEF Keeping, Disabling, HelperServes, IsClientSignatureValid, NoDictionary, Found,
         Localhost, Both, WhileRunning
<1> QED BY <1>1, <1>5, <1>6 DEF Exchange, Untouched, Enabling, Closed

LEMMA StateIsSetKeeps ==
  ASSUME AppInv, ServedOnlyIfValid, Exchange, StateIsSet, UNCHANGED << port, original >>
  PROVE  Exchange'
<1>1. /\ session # NoConnection /\ reply[session] # NoReply
      /\ reply[session].type = "SetProxyState"
      /\ Drops({session}, pc') /\ pc' = IF pc = "enable" THEN "running" ELSE "closed"
      /\ UNCHANGED saved
  BY DEF StateIsSet, Waiting, Answered, Finish, Drops, kept
<1>2. Type = "SetProxyState" /\ pc \in {"enable", "disable"} /\ session \in known
  BY <1>1, AllIdle, Askable DEF Exchange, Conversation
<1>3. Setting /\ ~Before /\ ~Halfway
  BY <1>1, <1>2, AllIdle DEF Setting, Before, Halfway
<1>4. HelperServes
  BY <1>2 DEF ServedOnlyIfValid, AppInv, HelperInv, LinkOK, RecordsOfTheLiving
<1>5. Alone' /\ Conversation' /\ UNCHANGED << stored, applied, tool, signing >>
  BY <1>1, DropsKeepsAlone
<1>6. /\ UNCHANGED << Found, Redirected, WhileRunning, Restored >>
      /\ HelperServes'
  BY <1>1, <1>4, <1>5
     DEF Found, Redirected, WhileRunning, Restored, ToRestore, Localhost, HelperServes,
         IsClientSignatureValid
<1>7. CASE pc = "enable"
  <2>1. Both(WhileRunning) /\ saved.host = IF Found THEN NoAddress ELSE original.host
    BY <1>3, <1>7 DEF Exchange, Enabling, WhileRunning
  <2>2. Keeping' /\ Disabling'
    BY <1>1, <1>5, <1>6, <1>7, <2>1 DEF Keeping, Disabling, Both
  <2> QED BY <1>1, <1>5, <1>7, <2>2 DEF Exchange, Untouched, Enabling, Closed
<1>8. CASE pc = "disable"
  <2>1. Both(Restored) /\ saved.host = IF Found THEN NoAddress ELSE original.host
    BY <1>3, <1>8 DEF Exchange, Disabling, Keeping
  <2>2. Closed'
    BY <1>1, <1>5, <1>6, <1>8, <2>1 DEF Closed, Both
  <2> QED BY <1>1, <1>5, <1>8, <2>2 DEF Exchange, Untouched, Enabling, Keeping, Disabling
<1> QED BY <1>2, <1>7, <1>8

\* The helper is replaced, or is not.
LEMMA BlessKeeps ==
  ASSUME AppInv, Exchange, Bless, UNCHANGED << port, original >>
  PROVE  Exchange'
<1>1. /\ pc = "install" /\ pc' = "enable" /\ session = NoConnection
      /\ UNCHANGED << stored, applied, session, saved >>
  BY DEF Bless, Install, HelperEnds, settings, kept, AppInv, SessionOK
<1>2. Alone' /\ Conversation' /\ ~Setting'
  BY <1>1 DEF Bless, Install, HelperEnds, Alone, Conversation, Setting
<1>3. Both(original) /\ saved = NoDictionary
  BY <1>1 DEF Exchange, Untouched
<1> QED BY <1>1, <1>2, <1>3
        DEF Exchange, Untouched, Enabling, Keeping, Disabling, Closed, Both, Before, Halfway

LEMMA BlessFailsKeeps ==
  ASSUME AppInv, Exchange, BlessFails, UNCHANGED << port, original >>
  PROVE  Exchange'
<1>1. /\ pc = "install" /\ pc' \in {"install", "off"} /\ session = NoConnection
      /\ UNCHANGED << stored, applied, stage, session, saved >>
  BY DEF BlessFails, Closes, settings, kept, AppInv, SessionOK
<1>2. Alone' /\ Conversation'
  BY <1>1 DEF Exchange, Alone, Conversation
<1> QED BY <1>1, <1>2
        DEF Exchange, Untouched, Enabling, Keeping, Disabling, Closed, Both

LEMMA CloseKeeps ==
  ASSUME AppInv, Exchange, Close, UNCHANGED << port, original >>
  PROVE  Exchange'
<1>1. /\ pc = "running" /\ pc' = "disable" /\ session = NoConnection
      /\ UNCHANGED << stored, applied, stage, session, saved, tool, signing >>
  BY DEF Close, helperVars, helper, settings, handling, mac, kept, AppInv, SessionOK, Askable
<1>2. Alone' /\ Conversation' /\ ~Setting' /\ Before' /\ ~Halfway'
  BY <1>1 DEF Exchange, Alone, Conversation, Setting, Before, Halfway
<1>3. /\ UNCHANGED << Found, WhileRunning, HelperServes >>
      /\ Both(WhileRunning)
  BY <1>1 DEF Exchange, Disabling, Found, Redirected, WhileRunning, Localhost, HelperServes,
              IsClientSignatureValid
<1> QED BY <1>1, <1>2, <1>3
        DEF Exchange, Untouched, Enabling, Keeping, Disabling, Closed, Both

--------------------------------------------------------------------------------
\* The exchange, one step of the helper at a time.

\* A step that changes no settings, and leaves a request to set them on the same
\* side of the commit and of its application.
LEMMA StaysKeeps ==
  ASSUME Exchange, Alone', Conversation',
         UNCHANGED << stored, applied, tool, signing, pc, session, saved, port, original >>,
         session # NoConnection => UNCHANGED message[session],
         Before' <=> Before, Halfway' <=> Halfway,
         pc = "enable" /\ session # NoConnection /\ reply'[session].type = "GetProxyState" =>
           reply'[session].state = StateOf(original)
  PROVE  Exchange'
<1>1. /\ UNCHANGED << Found, Redirected, WhileRunning, Restored, ToRestore, Localhost >>
      /\ UNCHANGED << HelperServes, Setting >>
  BY DEF Found, Redirected, WhileRunning, Restored, ToRestore, Localhost, HelperServes,
         IsClientSignatureValid, Setting, Type
<1>2. Untouched' /\ Keeping' /\ Closed'
  BY <1>1 DEF Exchange, Untouched, Keeping, Closed, Both
<1>3. Enabling'
  BY <1>1 DEF Exchange, Enabling, Both, Setting, Type
<1>4. Disabling'
  BY <1>1 DEF Exchange, Disabling, Both, Setting, Type
<1> QED BY <1>2, <1>3, <1>4 DEF Exchange

\* Beside the application's connection there are only those to clean up.
LEMMA OthersKeep ==
  ASSUME AppInv, Exchange, NEW c \in Connections, c # session, Serves(c),
         UNCHANGED << pc, session, saved, port, original >>
  PROVE  Exchange'
<1>1. stage[c] = "idle"
  BY DEF Exchange, Alone
<1>2. CleanUpConnection(c)
  BY <1>1 DEF Serves, NoService, Accept, Drop, Arrives, Greet, Refuse, Dispatch, Lost,
              AssertRight, GetCurrentVersion, GetHttpProxyState, Lock, EditConfiguration,
              CommitChanges, ApplyChanges, Unlock
<1>3. /\ UNCHANGED << stored, applied, tool, signing, stage, reply >>
      /\ known' = known \ {c} /\ \A k \in Connections : k # c => UNCHANGED message[k]
  BY <1>2 DEF CleanUpConnection, settings, AppInv, HelperInv, StageOK
<1>4. session # NoConnection => UNCHANGED message[session] /\ session \in Connections
  BY <1>3, Askable
<1>5. Alone' /\ Conversation' /\ (Before' <=> Before) /\ (Halfway' <=> Halfway)
  BY <1>3, <1>4 DEF Exchange, Alone, Conversation, Before, Halfway, Setting, Type
<1>6. pc = "enable" /\ session # NoConnection /\ reply'[session].type = "GetProxyState" =>
        reply'[session].state = StateOf(original)
  BY <1>3 DEF Exchange, Enabling
<1> QED BY <1>3, <1>4, <1>5, <1>6, StaysKeeps

\* The same for a step of the handler of the application's own connection.
LEMMA OwnStepKeeps ==
  ASSUME AppInv, Exchange, session # NoConnection, Serves(session),
         UNCHANGED << stored, applied, tool, signing, pc, session, saved, port, original >>,
         Conversation', UNCHANGED message[session],
         Before' <=> Before, Halfway' <=> Halfway,
         pc = "enable" /\ reply'[session].type = "GetProxyState" =>
           reply'[session].state = StateOf(original)
  PROVE  Exchange'
<1>1. Alone'
  BY Askable, ServesAlone DEF Exchange, Alone, AppInv
<1> QED BY <1>1, StaysKeeps

\* Up to the service: only a Hello may be answered with an error.
LEMMA ArrivalKeeps ==
  ASSUME AppInv, ServedOnlyIfValid, Exchange, session # NoConnection, Smooth,
         UNCHANGED << pc, session, saved, port, original >>,
         NoService(session) \/ Accept(session) \/ Drop(session) \/ Greet(session)
           \/ Dispatch(session)
  PROVE  Exchange'
<1> USE DEF AppInv, HelperInv
<1>1. /\ session \in Connections /\ stage[session] = "sent" /\ open[session]
      /\ reply[session].type = "none"
      /\ pc \in {"probe", "enable", "disable"}
  BY Askable, ReplyFacts
     DEF NoService, Accept, Drop, Greet, Dispatch, Arrives, AnswersFit, SessionOK, NoReply
<1>2. /\ UNCHANGED << stored, applied, tool, signing, message >>
      /\ Serves(session)
  BY DEF NoService, Accept, Drop, Greet, Dispatch, Serves, Answers, GoesOn, handling, settings
<1>3. UNCHANGED Type
  BY <1>2 DEF Type
<1>4. ASSUME NoService(session) \/ Drop(session) PROVE Exchange'
  <2>1. Type = "Hello"
    BY <1>1, <1>4
       DEF NoService, Drop, Exchange, Conversation, RecordsOfTheLiving
  <2>2. ~HelperServes
    BY <1>4 DEF NoService, Drop, HelperServes
  <2>3. pc # "disable"
    BY <2>2 DEF Exchange, Keeping
  <2>4. stage'[session] = "idle" /\ reply'[session].type = "Error" /\ UNCHANGED known
    BY <1>1, <1>4, ReplyFacts
       DEF NoService, Drop, Answers, StageOK, ReplyOK, Error, link
  <2>5. Conversation'
    BY <1>2, <1>3, <2>1, <2>3, <2>4 DEF Exchange, Conversation
  <2> QED BY <1>2, <1>3, <2>1, <2>4, <2>5, OwnStepKeeps DEF Before, Halfway, Setting
<1>5. ASSUME Accept(session) PROVE Exchange'
  <2>1. UNCHANGED << stage, reply, known >>
    BY <1>5 DEF Accept, handling
  <2>2. Conversation'
    BY <1>2, <1>3, <2>1 DEF Exchange, Conversation
  <2> QED BY <1>1, <1>2, <1>3, <2>1, <2>2, OwnStepKeeps DEF Before, Halfway, Setting
<1>6. ASSUME Greet(session) PROVE Exchange'
  <2>1. mishaps' = mishaps /\ mishaps \in Nat
    BY DEF Smooth, CountOK
  <2>2. /\ Type = "Hello" /\ known' = known \cup {session}
        /\ Answers(session, Reply("Hello"))
    BY <1>6, <2>1 DEF Greet, Type, Mishap
  <2>3. stage'[session] = "idle" /\ reply'[session].type = "Hello"
    BY <1>1, <2>2, ReplyFacts DEF Answers, StageOK, ReplyOK, MessageTypes
  <2>4. Conversation'
    BY <1>1, <1>2, <1>3, <2>2, <2>3 DEF Exchange, Conversation
  <2> QED BY <1>2, <1>3, <2>2, <2>3, <2>4, OwnStepKeeps DEF Before, Halfway, Setting
<1>7. ASSUME Dispatch(session) PROVE Exchange'
  <2>1. /\ Type # "Hello" /\ stage'[session] = "authorize" /\ UNCHANGED << reply, known >>
    BY <1>1, <1>7 DEF Dispatch, Type, GoesOn, StageOK, link
  <2>2. Conversation'
    BY <1>2, <1>3, <2>1 DEF Exchange, Conversation
  <2>3. (Before' <=> Before) /\ (Halfway' <=> Halfway)
    BY <1>1, <1>3, <2>1 DEF Before, Halfway, Setting
  <2> QED BY <1>1, <1>2, <1>3, <2>1, <2>2, <2>3, OwnStepKeeps
<1> QED BY <1>4, <1>5, <1>6, <1>7

\* In the service, up to the commit.
LEMMA ReadingKeeps ==
  ASSUME AppInv, Exchange, session # NoConnection, Smooth,
         UNCHANGED << pc, session, saved, port, original >>,
         AssertRight(session) \/ GetCurrentVersion(session) \/ GetHttpProxyState(session)
           \/ Lock(session) \/ EditConfiguration(session)
  PROVE  Exchange'
<1> USE DEF AppInv, HelperInv
<1>1. /\ session \in Connections /\ open[session]
      /\ stage[session] \in {"authorize", "get", "lock", "edit"}
      /\ reply[session].type = "none"
      /\ mishaps \in Nat /\ ~Mishap
  BY Askable, ReplyFacts
     DEF AssertRight, GetCurrentVersion, GetHttpProxyState, Lock, EditConfiguration,
         AnswersFit, SessionOK, NoReply, Mishap, Smooth, CountOK
<1>2. /\ UNCHANGED << stored, applied, tool, signing, known, message >>
      /\ Serves(session)
  BY <1>1 DEF AssertRight, GetCurrentVersion, GetHttpProxyState, Lock, EditConfiguration,
              Serves, Answers, GoesOn, settings, link
<1>3. UNCHANGED Type /\ Type # "Hello"
  BY <1>1, <1>2 DEF Type, Exchange, Conversation
<1>4. ASSUME AssertRight(session) \/ Lock(session) \/ EditConfiguration(session)
      PROVE  Exchange'
  <2>1. UNCHANGED reply /\ stage'[session] \in {"lock", "get", "edit", "commit"}
    BY <1>1, <1>4 DEF AssertRight, Lock, EditConfiguration, GoesOn, StageOK
  <2>2. /\ stage[session] \in {"authorize", "lock", "edit"}
        /\ Setting => stage'[session] \in {"lock", "edit", "commit"}
    BY <1>1, <1>4 DEF AssertRight, Lock, EditConfiguration, GoesOn, StageOK, Setting, Type
  <2>3. Conversation'
    BY <1>2, <1>3, <2>1 DEF Exchange, Conversation
  <2>4. (Before' <=> Before) /\ (Halfway' <=> Halfway)
    BY <1>1, <1>3, <2>2 DEF Before, Halfway, Setting
  <2> QED BY <1>1, <1>2, <2>1, <2>3, <2>4, OwnStepKeeps
<1>5. ASSUME GetCurrentVersion(session) PROVE Exchange'
  <2>1. /\ Type = "GetToolVersion" /\ reply'[session].type = "GetToolVersion"
    BY <1>1, <1>5, ReplyFacts
       DEF GetCurrentVersion, Type, Answers, ReplyOK, StoreOK
  <2>2. Conversation'
    BY <1>2, <1>3, <2>1 DEF Exchange, Conversation
  <2> QED BY <1>2, <1>3, <2>1, <2>2, OwnStepKeeps DEF Before, Halfway, Setting
<1>6. ASSUME GetHttpProxyState(session) PROVE Exchange'
  <2>1. /\ Type = "GetProxyState" /\ reply'[session] = StateReply(StateOf(stored))
    BY <1>1, <1>6 DEF GetHttpProxyState, Type, Answers, ReplyOK
  <2>2. reply'[session].type = "GetProxyState" /\ reply'[session].state = StateOf(stored)
    BY <2>1, ReplyFacts DEF StateReply, Reply
  <2>3. Conversation'
    BY <1>2, <1>3, <2>1, <2>2 DEF Exchange, Conversation
  <2>4. pc = "enable" => stored = original
    BY <2>1 DEF Exchange, Enabling, Before, Setting, Both
  <2> QED BY <1>2, <1>3, <2>1, <2>2, <2>3, <2>4, OwnStepKeeps DEF Before, Halfway, Setting
<1> QED BY <1>4, <1>5, <1>6

\* The commit, its application, and the answer.
LEMMA WritingKeeps ==
  ASSUME AppInv, ServedOnlyIfValid, Exchange, session # NoConnection, Smooth,
         UNCHANGED << pc, session, saved, port, original >>,
         CommitChanges(session) \/ ApplyChanges(session) \/ Unlock(session)
  PROVE  Exchange'
<1> USE DEF AppInv, HelperInv
<1>1. /\ session \in Connections /\ stage[session] \in {"commit", "apply", "unlock"}
      /\ mishaps \in Nat /\ ~Mishap
  BY Askable DEF CommitChanges, ApplyChanges, Unlock, Mishap, Smooth, CountOK
<1>2. Setting
  BY <1>1 DEF OnlySetLocks, Locking, Setting, Type
<1>3. /\ UNCHANGED << tool, signing, known, message >>
      /\ Serves(session)
  BY DEF CommitChanges, ApplyChanges, Unlock, Serves, Answers, GoesOn, link
<1>4. Alone'
  BY <1>1, <1>3, ServesAlone DEF Exchange, Alone
<1>5. Setting' /\ UNCHANGED Type /\ Type = "SetProxyState"
  BY <1>2, <1>3 DEF Setting, Type
<1>6. pc \in {"enable", "disable"}
  BY <1>1, <1>5, Askable DEF Exchange, Conversation
<1>7. /\ UNCHANGED << Found, Redirected, WhileRunning, Restored, ToRestore, Localhost >>
      /\ UNCHANGED HelperServes
  BY <1>3 DEF Found, Redirected, WhileRunning, Restored, ToRestore, Localhost, HelperServes,
              IsClientSignatureValid
<1>8. Untouched' /\ Keeping' /\ Closed'
  BY <1>6, <1>7 DEF Exchange, Untouched, Keeping, Closed
<1>9. message'[session].state = message[session].state
  BY <1>3
<1>10. ASSUME CommitChanges(session) PROVE Exchange'
  <2>1. /\ stored' = draft[session] /\ UNCHANGED << applied, reply >>
        /\ stage[session] = "commit" /\ stage'[session] = "apply"
    BY <1>1, <1>10 DEF CommitChanges, StageOK
  <2>2. stored' = Edited(stored, message[session].state)
    BY <1>1, <2>1 DEF NoLostUpdate
  <2>3. Before /\ ~Before' /\ Halfway'
    BY <1>2, <1>5, <2>1 DEF Before, Halfway
  <2>4. Conversation'
    BY <1>3, <1>5, <2>1 DEF Exchange, Conversation
  <2>5. CASE pc = "enable"
    <3>1. stored' = Redirected /\ applied' = original
      BY <1>2, <2>1, <2>2, <2>3, <2>5 DEF Exchange, Enabling, Both, Redirected
    <3> QED BY <1>2, <1>4, <1>5, <1>7, <1>8, <1>9, <2>1, <2>3, <2>4, <2>5, <3>1
            DEF Exchange, Enabling, Disabling
  <2>6. CASE pc = "disable"
    <3>1. stored' = Restored /\ applied' = WhileRunning
      BY <1>2, <2>1, <2>2, <2>3, <2>6 DEF Exchange, Disabling, Both, Restored
    <3> QED BY <1>2, <1>4, <1>5, <1>7, <1>8, <1>9, <2>1, <2>3, <2>4, <2>6, <3>1
            DEF Exchange, Enabling, Disabling
  <2> QED BY <1>6, <2>5, <2>6
<1>11. ASSUME ApplyChanges(session) PROVE Exchange'
  <2>1. /\ applied' = stored /\ UNCHANGED << stored, reply >>
        /\ stage[session] = "apply" /\ stage'[session] = "unlock"
    BY <1>1, <1>11 DEF ApplyChanges, GoesOn, StageOK
  <2>2. /\ ~Before /\ Halfway /\ ~Before' /\ ~Halfway'
    BY <1>2, <1>5, <2>1 DEF Before, Halfway
  <2>3. Conversation'
    BY <1>3, <1>5, <2>1 DEF Exchange, Conversation
  <2>4. CASE pc = "enable"
    <3>1. Both(Redirected)'
      BY <1>7, <2>1, <2>2, <2>4 DEF Exchange, Enabling, Both
    <3> QED BY <1>2, <1>4, <1>5, <1>7, <1>8, <1>9, <2>1, <2>2, <2>3, <2>4, <3>1
            DEF Exchange, Enabling, Disabling
  <2>5. CASE pc = "disable"
    <3>1. Both(Restored)'
      BY <1>7, <2>1, <2>2, <2>5 DEF Exchange, Disabling, Both
    <3> QED BY <1>2, <1>4, <1>5, <1>7, <1>8, <1>9, <2>1, <2>2, <2>3, <2>5, <3>1
            DEF Exchange, Enabling, Disabling
  <2> QED BY <1>6, <2>4, <2>5
<1>12. ASSUME Unlock(session) PROVE Exchange'
  <2>1. /\ UNCHANGED << stored, applied >> /\ Answers(session, Reply("SetProxyState"))
        /\ stage[session] = "unlock"
    BY <1>1, <1>12 DEF Unlock, settings
  <2>2. stage'[session] = "idle" /\ reply'[session].type \in {"SetProxyState", "none"}
    BY <1>1, <2>1, ReplyFacts DEF Answers, StageOK, ReplyOK, MessageTypes, NoReply
  <2>3. (Before' <=> Before) /\ (Halfway' <=> Halfway)
    BY <1>2, <1>5, <2>1, <2>2 DEF Before, Halfway
  <2>4. Conversation'
    BY <1>3, <1>5, <2>2 DEF Exchange, Conversation
  <2> QED BY <1>3, <2>1, <2>2, <2>3, <2>4, OwnStepKeeps
<1> QED BY <1>10, <1>11, <1>12

LEMMA ServesKeeps ==
  ASSUME AppInv, ServedOnlyIfValid, Exchange, HelperStep, Smooth,
         UNCHANGED << port, original >>
  PROVE  Exchange'
<1>1. UNCHANGED << pc, session, saved >> /\ mishaps \in Nat
  BY DEF HelperStep, mac, kept, AppInv, HelperInv, CountOK
<1>2. PICK c \in Connections : Serves(c)
  BY <1>1 DEF HelperStep, HelperCrashes, Mishap, Smooth
<1>3. CASE c # session
  BY <1>1, <1>2, <1>3, OthersKeep
<1>4. CASE c = session
  <2>1. session # NoConnection /\ open[session]
    BY <1>4, ConnectionsAssumption DEF AppInv, SessionOK
  <2>2. CASE Refuse(session)
    <3>1. session \in known <=> Type = "Hello"
      BY <2>2 DEF Refuse, Type
    <3>2. stage[session] = "sent"
      BY <2>2 DEF Refuse, Arrives
    <3> QED BY <2>1, <3>1, <3>2 DEF Exchange, Conversation
  <2>3. ~Lost(session) /\ ~CleanUpConnection(session)
    BY <2>1 DEF Lost, CleanUpConnection
  <2> QED BY <1>1, <1>2, <1>4, <2>1, <2>2, <2>3, ArrivalKeeps, ReadingKeeps, WritingKeeps
          DEF Serves
<1> QED BY <1>3, <1>4

--------------------------------------------------------------------------------
\* Every step.

LEMMA MacHasNoOptionsKept == AppInv /\ MacHasNoOptions /\ [Next]_vars => MacHasNoOptions'
<1> SUFFICES ASSUME AppInv, MacHasNoOptions, [Next]_vars, platform' = "mac"
             PROVE  pc' # "set"
  BY DEF MacHasNoOptions
<1>1. UNCHANGED platform /\ pc # "set"
  BY DEF MacHasNoOptions, Next, Works, Start, InitAuth, OpenClient, NoClient, CallFails,
         Authorized, ShouldInstall, Redirect, AlreadyEnabled, StateIsSet, Bless, BlessFails,
         QueryOptions, SetOptions, RestoreOptions, Close, Crash, HelperStep, Intervention,
         app, vars
<1>2. ASSUME NoClient \/ CallFails PROVE pc' # "set"
  <2>1. pc \in {"probe", "enable", "disable"} /\ pc' \in {AfterFailure, "off"}
    BY <1>2, Askable DEF NoClient, CallFails, Waiting, Drops
  <2> QED BY <2>1 DEF AfterFailure
<1>3. CASE Start \/ InitAuth \/ OpenClient \/ Authorized \/ ShouldInstall \/ Redirect
           \/ AlreadyEnabled \/ StateIsSet \/ Bless \/ BlessFails
  BY <1>1, <1>3 DEF Start, InitAuth, OpenClient, Authorized, ShouldInstall, Redirect,
                    AlreadyEnabled, StateIsSet, Finish, Drops, Bless, BlessFails
<1>4. CASE QueryOptions \/ SetOptions \/ RestoreOptions \/ Close \/ Crash \/ HelperStep
           \/ Intervention \/ UNCHANGED vars
  BY <1>1, <1>4 DEF QueryOptions, SetOptions, RestoreOptions, Close, Crash, HelperStep,
                    Intervention, vars
<1> QED BY <1>2, <1>3, <1>4 DEF Next, Works

LEMMA ExchangeKept ==
  ASSUME SettingsInv, Next, ~Start, Undisturbed'
  PROVE  Exchange'
<1> USE DEF SettingsInv
<1>1. Untroubled /\ Smooth /\ UNCHANGED << platform, port, original, calm >>
  BY StaysUndisturbed DEF Undisturbed
<1>2. Exchange /\ platform = "mac" /\ mishaps \in Nat /\ ~Mishap
  BY <1>1 DEF Undisturbed, Mishap, Smooth, AppInv, HelperInv, CountOK
<1>3. /\ ~NoClient /\ ~Crash /\ ~Intervention
      /\ ~QueryOptions /\ ~SetOptions /\ ~RestoreOptions
  BY <1>2 DEF NoClient, Crash, Intervention, SomeoneElseChanges, QueryOptions, SetOptions,
              RestoreOptions, MacHasNoOptions
<1> QED BY <1>1, <1>2, <1>3, InitAuthKeeps, OpenClientKeeps, CallFailsKeeps,
           AuthorizedKeeps, ShouldInstallKeeps, RedirectKeeps, AlreadyEnabledKeeps,
           StateIsSetKeeps, BlessKeeps, BlessFailsKeeps, CloseKeeps, ServesKeeps
        DEF Next, Works

LEMMA WindowsKept ==
  ASSUME SettingsInv, Next, ~Start
  PROVE  WindowsExchange'
<1> USE DEF SettingsInv
<1>1. UNCHANGED << platform, original, calm >>
  BY DEF Next, Works, InitAuth, OpenClient, NoClient, CallFails, Authorized, ShouldInstall,
         Redirect, AlreadyEnabled, StateIsSet, Bless, BlessFails, QueryOptions, SetOptions,
         RestoreOptions, Close, Crash, HelperStep, Intervention, app, kept
<1>2. Untroubled' => Untroubled /\ Smooth
  BY StaysUndisturbed
<1>3. SUFFICES ASSUME platform = "windows" PROVE WindowsExchange'
  BY <1>1 DEF WindowsExchange
<1>4. session = NoConnection /\ pc \in {"off", "closed", "construct", "set", "running", "disable"}
  BY <1>3 DEF WindowsExchange, AppInv, SessionOK
<1>5. QueryOptions \/ SetOptions \/ RestoreOptions \/ Close \/ Crash \/ Intervention
  BY <1>3, <1>4
     DEF Next, Works, InitAuth, OpenClient, NoClient, CallFails, Authorized, ShouldInstall,
         Redirect, AlreadyEnabled, StateIsSet, Waiting, Bless, BlessFails, HelperStep
<1>6. UNCHANGED << stored, applied, stage >>
  BY <1>3, <1>5
     DEF QueryOptions, SetOptions, RestoreOptions, Close, Crash, Closes, Intervention,
         helperVars, helper, settings, handling
<1>7. pc' \in {"off", "closed", "construct", "set", "running", "disable"}
  BY <1>4, <1>5
     DEF QueryOptions, SetOptions, RestoreOptions, Close, Crash, Intervention
<1>8. ASSUME Untroubled'
      PROVE  /\ pc' \in {"off", "closed", "construct", "set"} => options' = original
             /\ pc' \in {"set", "running", "disable"} => saved' = original
  <2>1. Smooth /\ ~Mishap /\ Untroubled
    BY <1>2, <1>8 DEF Smooth, Mishap, AppInv, HelperInv, CountOK
  <2>2. CASE QueryOptions \/ SetOptions \/ RestoreOptions
    BY <1>3, <2>1, <2>2
       DEF QueryOptions, SetOptions, RestoreOptions, WindowsExchange, app, mac, kept
  <2>3. CASE Close
    BY <1>3, <2>1, <2>3 DEF Close, WindowsExchange, app, kept
  <2>4. CASE Crash \/ Intervention
    BY <1>3, <2>1, <2>4 DEF Crash, Intervention
  <2> QED BY <1>5, <2>2, <2>3, <2>4
<1> QED BY <1>1, <1>3, <1>6, <1>7, <1>8 DEF WindowsExchange

LEMMA NextKeepsSettingsInv == SettingsInv /\ [Next]_vars => SettingsInv'
<1> SUFFICES ASSUME SettingsInv, [Next]_vars PROVE SettingsInv'
  OBVIOUS
<1>1. AppInv' /\ ServedOnlyIfValid' /\ MacHasNoOptions'
  BY NextKeepsAppInv, AppStep, ServedKeptValid, MacHasNoOptionsKept DEF SettingsInv, AppInv
<1>2. CASE UNCHANGED vars
  <2>1. UNCHANGED << Undisturbed, Exchange, WindowsExchange >>
    BY <1>2
       DEF vars, helperVars, helper, settings, link, handling, app, mac, kept, Undisturbed,
           Untroubled, Exchange, Alone, Conversation, Untouched, Enabling, Keeping, Disabling,
           Closed, WindowsExchange, Both, Before, Halfway, Setting, Type, Found, Redirected,
           WhileRunning, Restored, ToRestore, Localhost, HelperServes, IsClientSignatureValid
  <2> QED BY <1>1, <2>1 DEF SettingsInv
<1>3. CASE Start
  BY <1>1, <1>3, StartKeeps DEF SettingsInv
<1>4. CASE Next /\ ~Start
  BY <1>1, <1>4, ExchangeKept, WindowsKept DEF SettingsInv
<1> QED BY <1>2, <1>3, <1>4

LEMMA AlwaysSettingsInv == Spec => []SettingsInv
BY InitSettingsInv, NextKeepsSettingsInv, PTL DEF Spec

--------------------------------------------------------------------------------
\* When MacProxy::enable has returned, and nothing has gone wrong since the start,
\* the settings in force name this application's port: it has put them there, or
\* found them.
THEOREM RunningIsPointed == Spec => []RunningMeansPointed
<1>1. ASSUME SettingsInv, platform = "mac", pc = "running", Untroubled
      PROVE  StateOf(applied) = Localhost
  <2>1. applied = WhileRunning
    BY <1>1 DEF SettingsInv, Undisturbed, Exchange, Disabling, Both
  <2> QED BY <1>1, <2>1, PortFacts DEF SettingsInv, WhileRunning, Found
<1>2. SettingsInv => RunningMeansPointed
  BY <1>1 DEF RunningMeansPointed
<1> QED BY <1>2, AlwaysSettingsInv, PTL

\* ~WindowsProxy puts the options of before back.  ~MacProxy leaves no HTTP proxy
\* enabled, whatever was there; where someone else's was configured, it leaves its
\* name and everything beside it as they were.
THEOREM ClosingGivesBack == Spec => []CloseGivesBack
<1>1. ASSUME SettingsInv, pc = "closed", Untroubled, platform = "windows"
      PROVE  applied = stored /\ options = original
  BY <1>1 DEF SettingsInv, WindowsExchange
<1>2. ASSUME SettingsInv, pc = "closed", Untroubled, platform = "mac"
      PROVE  /\ applied = stored /\ ~stored.enabled
             /\ HadProxy => stored.host = original.host /\ stored.rest = original.rest
  <2>1. Both(Restored) /\ saved.host = IF Found THEN NoAddress ELSE original.host
    BY <1>2 DEF SettingsInv, Undisturbed, Exchange, Closed
  <2>2. /\ ~Restored.enabled
        /\ HadProxy => Restored.host = original.host /\ Restored.rest = original.rest
    BY <1>2, <2>1, WhatIsRestored DEF SettingsInv
  <2> QED BY <2>1, <2>2 DEF Both
<1>3. SettingsInv => CloseGivesBack
  BY <1>1, <1>2 DEF CloseGivesBack, SettingsInv, AppInv, AppOK
<1> QED BY <1>3, AlwaysSettingsInv, PTL

\* Whether the user declines to install the helper three times or a call ends the
\* application before its window is there: the settings are those of before.
THEOREM FailingTouchesNothing == Spec => []FailedStartTouchesNothing
<1>1. ASSUME SettingsInv, pc = "off", Untroubled PROVE Settings = original /\ applied = stored
  BY <1>1
     DEF SettingsInv, Undisturbed, WindowsExchange, Exchange, Untouched, Both, Settings, AppInv,
         AppOK
<1>2. SettingsInv => FailedStartTouchesNothing
  BY <1>1 DEF FailedStartTouchesNothing
<1> QED BY <1>2, AlwaysSettingsInv, PTL

================================================================================
