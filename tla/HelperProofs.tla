-------------------------------- MODULE HelperProofs --------------------------------
(***************************************************************************)
(* Proofs about Helper: for any number of connections, any addresses and   *)
(* any number of failures, by one inductive invariant.                     *)
(***************************************************************************)
EXTENDS Helper, TLAPS

\* HelperTypeOK in the parts that are proved apart.
StoreOK == /\ stored \in Dictionaries /\ applied \in Dictionaries
           /\ lock \in Connections \cup {NoConnection}
           /\ tool \in Tools
           /\ signing \in {"requirement", "earlier"}
LinkOK  == /\ open \in [Connections -> BOOLEAN]
           /\ conn \in [Connections -> {"none", "new", "served", "dropped"}]
           /\ known \subseteq Connections
StageOK == /\ stage \in [Connections -> Stages]
           /\ message \in [Connections -> Messages]
DraftOK == draft \in [Connections -> Dictionaries]
ReplyOK == reply \in [Connections -> Replies]
CountOK == mishaps \in 0 .. MaxMishaps

\* A connection nobody has made has no handler either.
NobodyThere == \A c \in Connections : conn[c] = "none" => stage[c] = "idle" /\ ~open[c]

\* Only a request to set the state gets to PreferencesLocker.
OnlySetLocks ==
  \A c \in Connections : stage[c] \in {"lock"} \cup Locking => message[c].type = "SetProxyState"

HelperInv == /\ StoreOK /\ LinkOK /\ StageOK /\ DraftOK /\ ReplyOK /\ CountOK
             /\ NobodyThere /\ OnlySetLocks
             /\ LockedWhileEditing /\ NoLostUpdate /\ RecordsOfTheLiving
             /\ ServedAfterHello /\ AnswersFit

--------------------------------------------------------------------------------
\* What the messages and the dictionary are made of.

LEMMA MessageFacts ==
  /\ \A type \in MessageTypes \ {"SetProxyState"} :
       Request(type) \in Messages /\ Request(type).type = type
  /\ \A s \in ProxyStates :
       /\ SetProxyState(s) \in Messages
       /\ SetProxyState(s).type = "SetProxyState" /\ SetProxyState(s).state = s
  /\ \A m \in Messages : m.type \in MessageTypes /\ m.state \in ProxyStates
<1>1. Disabled \in ProxyStates
  BY DEF Disabled, ProxyStates, Hosts
<1>2. \A type \in MessageTypes \ {"SetProxyState"} :
        Request(type) \in Messages /\ Request(type).type = type
  BY DEF Messages, Request
<1>3. \A st \in ProxyStates :
        /\ SetProxyState(st) \in Messages
        /\ SetProxyState(st).type = "SetProxyState" /\ SetProxyState(st).state = st
  BY DEF Messages, SetProxyState
<1>4. ASSUME NEW m \in Messages PROVE m.type \in MessageTypes /\ m.state \in ProxyStates
  <2>1. CASE \E type \in MessageTypes \ {"SetProxyState"} : m = Request(type)
    BY <1>1, <2>1 DEF Request
  <2>2. CASE \E st \in ProxyStates : m = SetProxyState(st)
    BY <2>2 DEF SetProxyState, MessageTypes
  <2> QED BY <2>1, <2>2 DEF Messages
<1> QED BY <1>2, <1>3, <1>4

LEMMA DictionaryFacts ==
  /\ NoDictionary \in Dictionaries
  /\ \A d \in Dictionaries : StateOf(d) \in ProxyStates
  /\ \A d \in Dictionaries, s \in ProxyStates : Edited(d, s) \in Dictionaries
<1>1. NoDictionary \in Dictionaries
  BY DEF NoDictionary, Dictionaries, Hosts
<1>2. \A d \in Dictionaries : StateOf(d) \in ProxyStates
  BY DEF Dictionaries, StateOf, ProxyStates
<1>3. ASSUME NEW d \in Dictionaries, NEW s \in ProxyStates
      PROVE  Edited(d, s) \in Dictionaries
  <2>1. [ d EXCEPT !.enabled = s.enabled, !.host = s.host ] \in Dictionaries
    BY DEF Dictionaries, ProxyStates
  <2> QED BY <1>1, <2>1 DEF Edited
<1> QED BY <1>1, <1>2, <1>3

LEMMA ReplyFacts ==
  /\ \A type \in MessageTypes \cup {"Error", "none"} :
       Reply(type) \in Replies /\ Reply(type).type = type
  /\ \A s \in ProxyStates :
       StateReply(s) \in Replies /\ StateReply(s).type = "GetProxyState"
  /\ tool \in Tools => VersionReply \in Replies /\ VersionReply.type = "GetToolVersion"
  /\ Disabled \in ProxyStates
<1>1. Disabled \in ProxyStates
  BY DEF Disabled, ProxyStates, Hosts
<1>2. \A type \in MessageTypes \cup {"Error", "none"} :
       Reply(type) \in Replies /\ Reply(type).type = type
  BY <1>1 DEF Reply, Replies, Tools
<1>3. \A s \in ProxyStates :
       StateReply(s) \in Replies /\ StateReply(s).type = "GetProxyState"
  BY <1>1 DEF Reply, StateReply, Replies, Tools, MessageTypes
<1>4. tool \in Tools => VersionReply \in Replies /\ VersionReply.type = "GetToolVersion"
  BY <1>1 DEF Reply, VersionReply, Replies, Tools, MessageTypes
<1> QED BY <1>1, <1>2, <1>3, <1>4

LEMMA InitHelperInv == HelperInit => HelperInv
<1> SUFFICES ASSUME HelperInit PROVE HelperInv
  OBVIOUS
<1>1. StoreOK
  BY DEF HelperInit, StoreOK
<1>2. LinkOK /\ NobodyThere /\ RecordsOfTheLiving
  BY DEF HelperInit, LinkOK, NobodyThere, RecordsOfTheLiving
<1>3. StageOK
  BY MessageFacts DEF HelperInit, StageOK, Stages, MessageTypes
<1>4. DraftOK /\ ReplyOK
  BY DictionaryFacts, ReplyFacts DEF HelperInit, DraftOK, ReplyOK, NoReply
<1>5. CountOK
  BY MaxMishapsAssumption DEF HelperInit, CountOK
<1>6. OnlySetLocks /\ LockedWhileEditing /\ NoLostUpdate /\ ServedAfterHello
  BY ConnectionsAssumption
     DEF HelperInit, OnlySetLocks, LockedWhileEditing, NoLostUpdate, ServedAfterHello, Locking
<1>7. AnswersFit
  BY DEF HelperInit, AnswersFit
<1> QED BY <1>1, <1>2, <1>3, <1>4, <1>5, <1>6, <1>7 DEF HelperInv

--------------------------------------------------------------------------------
\* The types, one part at a time.

LEMMA StoreKept == HelperInv /\ [HelperNext]_helperVars => StoreOK'
<1> SUFFICES ASSUME HelperInv, [HelperNext]_helperVars PROVE StoreOK'
  OBVIOUS
<1> USE DEF HelperInv, StoreOK
<1>1. CASE UNCHANGED helperVars
  BY <1>1 DEF helperVars, helper, settings
<1>2. ASSUME NEW c \in Connections, CommitChanges(c) PROVE StoreOK'
  BY <1>2 DEF CommitChanges, DraftOK
<1>3. ASSUME NEW c \in Connections, ApplyChanges(c) PROVE StoreOK'
  BY <1>3 DEF ApplyChanges
<1>4. ASSUME NEW c \in Connections, Lock(c) \/ EditConfiguration(c) \/ Unlock(c) PROVE StoreOK'
  BY <1>4 DEF Lock, EditConfiguration, Unlock, settings
<1>5. ASSUME NEW c \in Connections,
             Serves(c), ~CommitChanges(c), ~ApplyChanges(c),
             ~Lock(c), ~EditConfiguration(c), ~Unlock(c)
      PROVE  StoreOK'
  BY <1>5 DEF Serves, NoService, Accept, Drop, Greet, Refuse, Dispatch, Lost,
              CleanUpConnection, AssertRight, GetCurrentVersion, GetHttpProxyState, settings
<1>6. ASSUME NEW c \in Connections, Client(c) PROVE StoreOK'
  BY <1>6 DEF Client, Connect, Ask, settings
<1>7. ASSUME NEW S \in SUBSET Connections, HangUp(S) PROVE StoreOK'
  BY <1>7 DEF HangUp, Closes, settings
<1>8. CASE HelperCrashes \/ Install \/ ElsewhereFails
  BY <1>8 DEF HelperCrashes, Install, HelperEnds, ElsewhereFails, helper, settings, Tools
<1>9. CASE SomeoneElseChanges
  BY <1>9 DEF SomeoneElseChanges
<1> QED BY <1>1, <1>2, <1>3, <1>4, <1>5, <1>6, <1>7, <1>8, <1>9 DEF HelperNext

LEMMA LinkKept == HelperInv /\ [HelperNext]_helperVars => LinkOK'
<1> SUFFICES ASSUME HelperInv, [HelperNext]_helperVars PROVE LinkOK'
  OBVIOUS
<1> USE DEF HelperInv, LinkOK
<1>1. CASE UNCHANGED helperVars
  BY <1>1 DEF helperVars, helper, link
<1>2. ASSUME NEW c \in Connections, Accept(c) \/ Drop(c) \/ Greet(c) \/ CleanUpConnection(c)
      PROVE  LinkOK'
  BY <1>2 DEF Accept, Drop, Greet, CleanUpConnection
<1>3. ASSUME NEW c \in Connections,
             Serves(c), ~Accept(c), ~Drop(c), ~Greet(c), ~CleanUpConnection(c)
      PROVE  LinkOK'
  BY <1>3 DEF Serves, NoService, Refuse, Dispatch, Lost, AssertRight, GetCurrentVersion,
              GetHttpProxyState, Lock, EditConfiguration, CommitChanges, ApplyChanges,
              Unlock, link
<1>4. ASSUME NEW c \in Connections, Client(c) PROVE LinkOK'
  BY <1>4 DEF Client, Connect, Ask, link
<1>5. ASSUME NEW S \in SUBSET Connections, HangUp(S) PROVE LinkOK'
  BY <1>5 DEF HangUp, Closes
<1>6. CASE HelperCrashes \/ Install
  BY <1>6 DEF HelperCrashes, Install, HelperEnds
<1>7. CASE SomeoneElseChanges \/ ElsewhereFails
  BY <1>7 DEF SomeoneElseChanges, ElsewhereFails, helper, link
<1> QED BY <1>1, <1>2, <1>3, <1>4, <1>5, <1>6, <1>7 DEF HelperNext

LEMMA StageKept == HelperInv /\ [HelperNext]_helperVars => StageOK'
<1> SUFFICES ASSUME HelperInv, [HelperNext]_helperVars PROVE StageOK'
  OBVIOUS
<1> USE DEF HelperInv, StageOK, Stages
<1>1. CASE UNCHANGED helperVars
  BY <1>1 DEF helperVars, helper, handling
<1>2. Request("Hello") \in Messages
  BY MessageFacts DEF MessageTypes
<1>3. ASSUME NEW c \in Connections, CleanUpConnection(c) PROVE StageOK'
  BY <1>2, <1>3 DEF CleanUpConnection
<1>4. ASSUME NEW c \in Connections, Serves(c), ~CleanUpConnection(c) PROVE StageOK'
  BY <1>4 DEF Serves, NoService, Accept, Drop, Greet, Refuse, Dispatch, Lost, AssertRight,
              GetCurrentVersion, GetHttpProxyState, Lock, EditConfiguration, CommitChanges,
              ApplyChanges, Unlock, Answers, GoesOn, handling
<1>5. ASSUME NEW c \in Connections, Client(c) PROVE StageOK'
  BY <1>2, <1>5 DEF Client, Connect, Ask, Sends
<1>6. ASSUME NEW S \in SUBSET Connections, HangUp(S) PROVE StageOK'
  BY <1>6 DEF HangUp, Closes
<1>7. CASE HelperCrashes \/ Install
  BY <1>2, <1>7 DEF HelperCrashes, Install, HelperEnds
<1>8. CASE SomeoneElseChanges \/ ElsewhereFails
  BY <1>8 DEF SomeoneElseChanges, ElsewhereFails, helper, handling
<1> QED BY <1>1, <1>3, <1>4, <1>5, <1>6, <1>7, <1>8 DEF HelperNext

LEMMA DraftKept == HelperInv /\ [HelperNext]_helperVars => DraftOK'
<1> SUFFICES ASSUME HelperInv, [HelperNext]_helperVars PROVE DraftOK'
  OBVIOUS
<1> USE DEF HelperInv, DraftOK
<1>1. CASE UNCHANGED helperVars
  BY <1>1 DEF helperVars, helper, handling
<1>2. ASSUME NEW c \in Connections, EditConfiguration(c) PROVE DraftOK'
  <2>1. Edited(stored, message[c].state) \in Dictionaries
    BY MessageFacts, DictionaryFacts DEF StoreOK, StageOK
  <2> QED BY <1>2, <2>1 DEF EditConfiguration, GoesOn, Answers
<1>3. ASSUME NEW c \in Connections, CommitChanges(c) PROVE DraftOK'
  BY <1>3, DictionaryFacts DEF CommitChanges
<1>4. ASSUME NEW c \in Connections, Serves(c), ~EditConfiguration(c), ~CommitChanges(c)
      PROVE  DraftOK'
  BY <1>4 DEF Serves, NoService, Accept, Drop, Greet, Refuse, Dispatch, Lost,
              CleanUpConnection, AssertRight, GetCurrentVersion, GetHttpProxyState, Lock,
              ApplyChanges, Unlock, Answers, GoesOn, handling
<1>5. ASSUME NEW c \in Connections, Client(c) PROVE DraftOK'
  BY <1>5 DEF Client, Connect, Ask, Sends
<1>6. ASSUME NEW S \in SUBSET Connections, HangUp(S) PROVE DraftOK'
  BY <1>6 DEF HangUp, Closes
<1>7. CASE HelperCrashes \/ Install
  BY <1>7, DictionaryFacts DEF HelperCrashes, Install, HelperEnds
<1>8. CASE SomeoneElseChanges \/ ElsewhereFails
  BY <1>8 DEF SomeoneElseChanges, ElsewhereFails, helper, handling
<1> QED BY <1>1, <1>2, <1>3, <1>4, <1>5, <1>6, <1>7, <1>8 DEF HelperNext

LEMMA ReplyKept == HelperInv /\ [HelperNext]_helperVars => ReplyOK'
<1> SUFFICES ASSUME HelperInv, [HelperNext]_helperVars PROVE ReplyOK'
  OBVIOUS
<1> USE DEF HelperInv, ReplyOK
<1>1. CASE UNCHANGED helperVars
  BY <1>1 DEF helperVars, helper, handling
<1>2. /\ NoReply \in Replies /\ Error \in Replies
      /\ Reply("Hello") \in Replies /\ Reply("SetProxyState") \in Replies
      /\ VersionReply \in Replies
      /\ StateReply(Disabled) \in Replies /\ StateReply(StateOf(stored)) \in Replies
  BY ReplyFacts, DictionaryFacts DEF NoReply, Error, MessageTypes, StoreOK
<1>3. ASSUME NEW c \in Connections, NEW r \in Replies, Answers(c, r) PROVE ReplyOK'
  BY <1>2, <1>3 DEF Answers
<1>4. ASSUME NEW c \in Connections, Serves(c) PROVE ReplyOK'
  <2>1. \/ UNCHANGED reply
        \/ \E r \in Replies : Answers(c, r)
    BY <1>2, <1>4 DEF Serves, NoService, Accept, Drop, Greet, Refuse, Dispatch, Lost,
              CleanUpConnection, AssertRight, GetCurrentVersion, GetHttpProxyState, Lock,
              EditConfiguration, CommitChanges, ApplyChanges, Unlock, GoesOn, handling
  <2> QED BY <1>3, <2>1
<1>5. ASSUME NEW c \in Connections, Client(c) PROVE ReplyOK'
  BY <1>2, <1>5 DEF Client, Connect, Ask, Sends
<1>6. ASSUME NEW S \in SUBSET Connections, HangUp(S) PROVE ReplyOK'
  BY <1>2, <1>6 DEF HangUp, Closes
<1>7. CASE HelperCrashes \/ Install
  BY <1>2, <1>7 DEF HelperCrashes, Install, HelperEnds
<1>8. CASE SomeoneElseChanges \/ ElsewhereFails
  BY <1>8 DEF SomeoneElseChanges, ElsewhereFails, helper, handling
<1> QED BY <1>1, <1>4, <1>5, <1>6, <1>7, <1>8 DEF HelperNext

\* Every step counts one failure at most, and never too many.
LEMMA CountKept ==
  HelperInv /\ [HelperNext]_helperVars => CountOK' /\ mishaps' >= mishaps
<1> SUFFICES ASSUME HelperInv, [HelperNext]_helperVars PROVE CountOK' /\ mishaps' >= mishaps
  OBVIOUS
<1>1. Smooth \/ Mishap
  BY DEF HelperNext, Serves, Client, NoService, Accept, Drop, Greet, Refuse, Dispatch, Lost,
         CleanUpConnection, AssertRight, GetCurrentVersion, GetHttpProxyState, Lock,
         EditConfiguration, CommitChanges, ApplyChanges, Unlock, Connect, Ask, HangUp,
         HelperCrashes, Install, SomeoneElseChanges, ElsewhereFails, helperVars, Smooth
<1> QED BY <1>1, MaxMishapsAssumption DEF HelperInv, CountOK, Smooth, Mishap

--------------------------------------------------------------------------------
\* The rest of the invariant.

\* A step of one connection's handler leaves the other connections alone.
LEMMA ServesAlone ==
  ASSUME HelperInv, NEW c \in Connections, Serves(c),
         NEW k \in Connections, k # c
  PROVE  /\ UNCHANGED << stage[k], message[k], draft[k], reply[k], conn[k] >>
         /\ k \in known' <=> k \in known
BY DEF HelperInv, LinkOK, StageOK, DraftOK, ReplyOK, Serves, NoService, Accept, Drop, Greet, Refuse, Dispatch, Lost, CleanUpConnection,
              AssertRight, GetCurrentVersion, GetHttpProxyState, Lock, EditConfiguration,
              CommitChanges, ApplyChanges, Unlock,
       Answers, GoesOn, handling, link

LEMMA NobodyThereKept == HelperInv /\ [HelperNext]_helperVars => NobodyThere'
<1> SUFFICES ASSUME HelperInv, [HelperNext]_helperVars PROVE NobodyThere'
  OBVIOUS
<1> USE DEF HelperInv, NobodyThere
<1>1. CASE UNCHANGED helperVars
  BY <1>1 DEF helperVars, helper, handling, link
<1>2. ASSUME NEW c \in Connections, Serves(c) PROVE NobodyThere'
  <2>1. UNCHANGED open /\ (conn'[c] = "none" => stage'[c] = "idle" /\ ~open[c])
    BY <1>2 DEF LinkOK, StageOK, Serves, NoService, Accept, Drop, Greet, Refuse, Dispatch, Lost, CleanUpConnection,
              AssertRight, GetCurrentVersion, GetHttpProxyState, Lock, EditConfiguration,
              CommitChanges, ApplyChanges, Unlock,
              Answers, GoesOn, handling, link, Arrives
  <2> QED BY <1>2, <2>1, ServesAlone
<1>3. ASSUME NEW c \in Connections, Client(c) PROVE NobodyThere'
  BY <1>3 DEF Client, Connect, Ask, Sends, Answered, LinkOK, StageOK, link
<1>4. ASSUME NEW S \in SUBSET Connections, HangUp(S) PROVE NobodyThere'
  BY <1>4 DEF HangUp, Closes, LinkOK
<1>5. CASE HelperCrashes \/ Install
  BY <1>5 DEF HelperCrashes, Install, HelperEnds, LinkOK
<1>6. CASE SomeoneElseChanges \/ ElsewhereFails
  BY <1>6 DEF SomeoneElseChanges, ElsewhereFails, helper, handling, link
<1> QED BY <1>1, <1>2, <1>3, <1>4, <1>5, <1>6 DEF HelperNext

LEMMA OnlySetLocksKept == HelperInv /\ [HelperNext]_helperVars => OnlySetLocks'
<1> SUFFICES ASSUME HelperInv, [HelperNext]_helperVars PROVE OnlySetLocks'
  OBVIOUS
<1> USE DEF HelperInv, OnlySetLocks, Locking
<1>1. CASE UNCHANGED helperVars
  BY <1>1 DEF helperVars, helper, handling
<1>2. ASSUME NEW c \in Connections, Serves(c) PROVE OnlySetLocks'
  <2>1. stage'[c] \in {"lock"} \cup Locking => message'[c].type = "SetProxyState"
    BY <1>2 DEF StageOK, Serves, NoService, Accept, Drop, Greet, Refuse, Dispatch, Lost, CleanUpConnection,
              AssertRight, GetCurrentVersion, GetHttpProxyState, Lock, EditConfiguration,
              CommitChanges, ApplyChanges, Unlock,
              Answers, GoesOn, handling
  <2> QED BY <1>2, <2>1, ServesAlone
<1>3. ASSUME NEW c \in Connections, Client(c) PROVE OnlySetLocks'
  BY <1>3 DEF Client, Connect, Ask, Sends, StageOK
<1>4. ASSUME NEW S \in SUBSET Connections, HangUp(S) PROVE OnlySetLocks'
  BY <1>4 DEF HangUp, Closes
<1>5. CASE HelperCrashes \/ Install
  BY <1>5 DEF HelperCrashes, Install, HelperEnds
<1>6. CASE SomeoneElseChanges \/ ElsewhereFails
  BY <1>6 DEF SomeoneElseChanges, ElsewhereFails, helper, handling
<1> QED BY <1>1, <1>2, <1>3, <1>4, <1>5, <1>6 DEF HelperNext

\* The lock is taken and given back together with the stage.
LEMMA LockKept == HelperInv /\ [HelperNext]_helperVars => LockedWhileEditing'
<1> SUFFICES ASSUME HelperInv, [HelperNext]_helperVars PROVE LockedWhileEditing'
  OBVIOUS
<1> USE ConnectionsAssumption DEF HelperInv, LockedWhileEditing, Locking
<1>1. CASE UNCHANGED helperVars
  BY <1>1 DEF helperVars, helper, handling
<1>2. ASSUME NEW c \in Connections, Serves(c) PROVE LockedWhileEditing'
  <2>1. /\ stage'[c] \in Locking <=> lock' = c
        /\ \A k \in Connections : k # c => (lock' = k <=> lock = k)
    BY <1>2 DEF StageOK, Serves, NoService, Accept, Drop, Greet, Refuse, Dispatch, Lost, CleanUpConnection,
              AssertRight, GetCurrentVersion, GetHttpProxyState, Lock, EditConfiguration,
              CommitChanges, ApplyChanges, Unlock,
              Answers, GoesOn, handling, Arrives
  <2> QED BY <1>2, <2>1, ServesAlone
<1>3. ASSUME NEW c \in Connections, Client(c) PROVE LockedWhileEditing'
  BY <1>3 DEF Client, Connect, Ask, Sends, StageOK, AnswersFit, Answered, NobodyThere
<1>4. ASSUME NEW S \in SUBSET Connections, HangUp(S) PROVE LockedWhileEditing'
  BY <1>4 DEF HangUp, Closes
<1>5. CASE HelperCrashes \/ Install
  BY <1>5 DEF HelperCrashes, Install, HelperEnds
<1>6. CASE SomeoneElseChanges \/ ElsewhereFails
  BY <1>6 DEF SomeoneElseChanges, ElsewhereFails, helper, handling
<1> QED BY <1>1, <1>2, <1>3, <1>4, <1>5, <1>6 DEF HelperNext

\* Nobody stores anything while another one has a copy to commit, because both
\* would have the lock.
LEMMA UpdateKept == HelperInv /\ [HelperNext]_helperVars => NoLostUpdate'
<1> SUFFICES ASSUME HelperInv, [HelperNext]_helperVars PROVE NoLostUpdate'
  OBVIOUS
<1> USE DEF HelperInv, NoLostUpdate
<1>1. CASE UNCHANGED helperVars
  BY <1>1 DEF helperVars, helper, handling, settings
<1>2. ASSUME NEW c \in Connections, Serves(c), NEW k \in Connections, stage'[k] = "commit"
      PROVE  draft'[k] = Edited(stored', message'[k].state)
  <2>1. CASE EditConfiguration(c)
    <3>1. UNCHANGED << stored, message >>
      BY <2>1 DEF EditConfiguration, GoesOn, Answers, settings
    <3>2. CASE k = c
      BY <1>2, <2>1, <3>1, <3>2 DEF EditConfiguration, GoesOn, Answers, StageOK, DraftOK
    <3>3. CASE k # c
      BY <1>2, <3>1, <3>3, ServesAlone
    <3> QED BY <3>2, <3>3
  <2>2. CASE CommitChanges(c)
    <3>1. k # c
      BY <1>2, <2>2 DEF CommitChanges, StageOK
    <3>2. stage[k] = "commit"
      BY <1>2, <3>1, ServesAlone
    <3> QED BY <2>2, <3>1, <3>2 DEF CommitChanges, LockedWhileEditing, Locking
  <2>3. CASE ~EditConfiguration(c) /\ ~CommitChanges(c)
    <3>1. UNCHANGED stored /\ stage'[c] # "commit"
      BY <1>2, <2>3 DEF Serves, NoService, Accept, Drop, Greet, Refuse, Dispatch, Lost,
              CleanUpConnection, AssertRight, GetCurrentVersion, GetHttpProxyState, Lock,
              ApplyChanges, Unlock, Answers, GoesOn, handling, settings, StageOK, Arrives
    <3> QED BY <1>2, <3>1, ServesAlone
  <2> QED BY <2>1, <2>2, <2>3
<1>3. ASSUME NEW c \in Connections, Client(c) PROVE NoLostUpdate'
  BY <1>3 DEF Client, Connect, Ask, Sends, StageOK, settings
<1>4. ASSUME NEW S \in SUBSET Connections, HangUp(S) PROVE NoLostUpdate'
  BY <1>4 DEF HangUp, Closes, settings
<1>5. CASE HelperCrashes \/ Install
  BY <1>5 DEF HelperCrashes, Install, HelperEnds
<1>6. CASE SomeoneElseChanges
  BY <1>6, ConnectionsAssumption DEF SomeoneElseChanges, LockedWhileEditing, Locking, handling
<1>7. CASE ElsewhereFails
  BY <1>7 DEF ElsewhereFails, helper, handling, settings
<1> QED BY <1>1, <1>2, <1>3, <1>4, <1>5, <1>6, <1>7 DEF HelperNext

\* An entry of m_connections goes before its connection does.
LEMMA RecordsKept == HelperInv /\ [HelperNext]_helperVars => RecordsOfTheLiving'
<1> SUFFICES ASSUME HelperInv, [HelperNext]_helperVars PROVE RecordsOfTheLiving'
  OBVIOUS
<1> USE DEF HelperInv, RecordsOfTheLiving, LinkOK
<1>1. CASE UNCHANGED helperVars
  BY <1>1 DEF helperVars, helper, link
<1>2. ASSUME NEW c \in Connections, Serves(c) PROVE RecordsOfTheLiving'
  <2>1. c \in known' => conn'[c] = "served"
    BY <1>2 DEF Serves, NoService, Accept, Drop, Greet, Refuse, Dispatch, Lost, CleanUpConnection,
              AssertRight, GetCurrentVersion, GetHttpProxyState, Lock, EditConfiguration,
              CommitChanges, ApplyChanges, Unlock, link, Arrives
  <2>2. known' \subseteq Connections
    BY LinkKept
  <2> QED BY <1>2, <2>1, <2>2, ServesAlone
<1>3. ASSUME NEW c \in Connections, Client(c) PROVE RecordsOfTheLiving'
  BY <1>3 DEF Client, Connect, Ask, link
<1>4. ASSUME NEW S \in SUBSET Connections, HangUp(S) PROVE RecordsOfTheLiving'
  BY <1>4 DEF HangUp, Closes
<1>5. CASE HelperCrashes \/ Install
  BY <1>5 DEF HelperCrashes, Install, HelperEnds
<1>6. CASE SomeoneElseChanges \/ ElsewhereFails
  BY <1>6 DEF SomeoneElseChanges, ElsewhereFails, helper, link
<1> QED BY <1>1, <1>2, <1>3, <1>4, <1>5, <1>6 DEF HelperNext

LEMMA ServedKept == HelperInv /\ [HelperNext]_helperVars => ServedAfterHello'
<1> SUFFICES ASSUME HelperInv, [HelperNext]_helperVars PROVE ServedAfterHello'
  OBVIOUS
<1> USE DEF HelperInv, ServedAfterHello, StageOK
<1>1. CASE UNCHANGED helperVars
  BY <1>1 DEF helperVars, helper, link, handling
<1>2. ASSUME NEW c \in Connections, Serves(c) PROVE ServedAfterHello'
  <2>1. stage'[c] \notin {"idle", "sent"} => c \in known'
    BY <1>2 DEF Serves, NoService, Accept, Drop, Greet, Refuse, Dispatch, Lost, CleanUpConnection,
              AssertRight, GetCurrentVersion, GetHttpProxyState, Lock, EditConfiguration,
              CommitChanges, ApplyChanges, Unlock,
              Answers, GoesOn, handling, link, Arrives
  <2> QED BY <1>2, <2>1, ServesAlone
<1>3. ASSUME NEW c \in Connections, Client(c) PROVE ServedAfterHello'
  BY <1>3 DEF Client, Connect, Ask, Sends, link
<1>4. ASSUME NEW S \in SUBSET Connections, HangUp(S) PROVE ServedAfterHello'
  BY <1>4 DEF HangUp, Closes
<1>5. CASE HelperCrashes \/ Install
  BY <1>5 DEF HelperCrashes, Install, HelperEnds
<1>6. CASE SomeoneElseChanges \/ ElsewhereFails
  BY <1>6 DEF SomeoneElseChanges, ElsewhereFails, helper, link, handling
<1> QED BY <1>1, <1>2, <1>3, <1>4, <1>5, <1>6 DEF HelperNext

\* A handler answers once, with the type of its message, and then is idle; until
\* then it has the message.
LEMMA AnswersKept == HelperInv /\ [HelperNext]_helperVars => AnswersFit'
<1> SUFFICES ASSUME HelperInv, [HelperNext]_helperVars PROVE AnswersFit'
  OBVIOUS
<1> USE DEF HelperInv, AnswersFit, StageOK, ReplyOK
<1>1. CASE UNCHANGED helperVars
  BY <1>1 DEF helperVars, helper, link, handling
<1>2. ASSUME NEW c \in Connections, NEW r, r.type \in {message[c].type, "Error"}, Answers(c, r),
             UNCHANGED open
      PROVE  AnswersFit'
  <2>1. message[c].type # "none" /\ NoReply.type = "none"
    BY MessageFacts, ReplyFacts DEF MessageTypes, NoReply
  <2>2. r # NoReply
    BY <1>2, <2>1
  <2> QED BY <1>2, <2>2 DEF Answers
<1>3. ASSUME NEW c \in Connections, Serves(c) PROVE AnswersFit'
  <2>1. UNCHANGED open
    BY <1>3 DEF Serves, NoService, Accept, Drop, Greet, Refuse, Dispatch, Lost, CleanUpConnection,
              AssertRight, GetCurrentVersion, GetHttpProxyState, Lock, EditConfiguration,
              CommitChanges, ApplyChanges, Unlock, link
  <2>2. /\ Error.type = "Error" /\ Reply("Hello").type = "Hello"
        /\ Reply("SetProxyState").type = "SetProxyState"
        /\ VersionReply.type = "GetToolVersion"
        /\ StateReply(Disabled).type = "GetProxyState"
        /\ StateReply(StateOf(stored)).type = "GetProxyState"
    BY ReplyFacts, DictionaryFacts DEF Error, MessageTypes, StoreOK
  <2>3. \/ \E r : r.type \in {message[c].type, "Error"} /\ Answers(c, r)
        \/ /\ UNCHANGED reply /\ (reply[c] # NoReply => stage'[c] = "idle")
           /\ reply[c] # NoReply => UNCHANGED message
           /\ open[c] => stage'[c] # "idle"
    BY <1>3, <2>2
       DEF Serves, NoService, Accept, Drop, Greet, Refuse, Dispatch, Lost, CleanUpConnection,
           AssertRight, GetCurrentVersion, GetHttpProxyState, Lock, EditConfiguration,
           CommitChanges, ApplyChanges, Unlock, GoesOn, handling, Arrives, OnlySetLocks, Locking
  <2>4. CASE /\ UNCHANGED reply /\ (reply[c] # NoReply => stage'[c] = "idle")
             /\ reply[c] # NoReply => UNCHANGED message
             /\ open[c] => stage'[c] # "idle"
    BY <1>3, <2>1, <2>4, ServesAlone
  <2> QED BY <1>2, <2>1, <2>3, <2>4
<1>4. ASSUME NEW c \in Connections, Client(c) PROVE AnswersFit'
  BY <1>4 DEF Client, Connect, Ask, Sends, LinkOK, link
<1>5. ASSUME NEW S \in SUBSET Connections, HangUp(S) PROVE AnswersFit'
  BY <1>5 DEF HangUp, Closes
<1>6. CASE HelperCrashes \/ Install
  <2>1. Error.type = "Error" /\ NoReply.type = "none"
    BY ReplyFacts DEF Error, NoReply
  <2> QED BY <1>6, <2>1 DEF HelperCrashes, Install, HelperEnds
<1>7. CASE SomeoneElseChanges \/ ElsewhereFails
  BY <1>7 DEF SomeoneElseChanges, ElsewhereFails, helper, link, handling
<1> QED BY <1>1, <1>3, <1>4, <1>5, <1>6, <1>7 DEF HelperNext

LEMMA NextKeepsHelperInv == HelperInv /\ [HelperNext]_helperVars => HelperInv'
BY StoreKept, LinkKept, StageKept, DraftKept, ReplyKept, CountKept, NobodyThereKept,
   OnlySetLocksKept, LockKept, UpdateKept, RecordsKept, ServedKept, AnswersKept
   DEF HelperInv

LEMMA AlwaysHelperInv == HelperSpec => []HelperInv
BY InitHelperInv, NextKeepsHelperInv, PTL DEF HelperSpec

--------------------------------------------------------------------------------
\* The helper's state is one XpcServer and TrustyService can be in, for any
\* number of connections.
THEOREM HelperTypeCorrect == HelperSpec => []HelperTypeOK
<1>1. HelperInv => HelperTypeOK
  BY DEF HelperInv, HelperTypeOK, StoreOK, LinkOK, StageOK, DraftOK, ReplyOK, CountOK
<1> QED BY <1>1, AlwaysHelperInv, PTL

\* PreferencesLocker: at most one handler is between lock and unlock, and every
\* way out of set_http_proxy_state gives the lock back.
THEOREM LockIsGivenBack == HelperSpec => []LockedWhileEditing
BY AlwaysHelperInv, PTL DEF HelperInv

\* The copy that set_http_proxy_state commits is one of what is stored then.
THEOREM NoUpdateIsLost == HelperSpec => []NoLostUpdate
BY AlwaysHelperInv, PTL DEF HelperInv

\* m_connections holds connections that are being served, and no others.
THEOREM RecordsAreOfTheLiving == HelperSpec => []RecordsOfTheLiving
BY AlwaysHelperInv, PTL DEF HelperInv

\* handleIncomingMessage serves nothing before Hello, however it is interleaved
\* with CleanUpConnection and with crashes.
THEOREM ServedOnlyAfterHello == HelperSpec => []ServedAfterHello
BY AlwaysHelperInv, PTL DEF HelperInv

\* send_message never takes an answer for that of another message.
THEOREM AnswersAlwaysFit == HelperSpec => []AnswersFit
BY AlwaysHelperInv, PTL DEF HelperInv

--------------------------------------------------------------------------------
\* With all its handlers the helper is one value that changes as a whole.

LEMMA NoRequestFacts ==
  /\ \A s \in ProxyStates : s # NoRequest
  /\ \A c \in Connections : Asked[c] =
       IF message[c].type = "SetProxyState" /\ stage[c] \in Undecided
       THEN message[c].state ELSE NoRequest
<1>1. ASSUME NEW s \in ProxyStates, s = NoRequest PROVE FALSE
  <2>1. DOMAIN s = {"enabled", "host"}
    BY DEF ProxyStates
  <2>2. DOMAIN NoRequest = {"enabled"}
    BY DEF NoRequest
  <2> QED BY <1>1, <2>1, <2>2
<1> QED BY <1>1 DEF Asked

\* Where no request is newly under way and the value is left alone, those that
\* are not under way any more were dropped.
LEMMA DroppingSteps ==
  ASSUME mishaps' >= mishaps, UNCHANGED stored,
         \A c \in Connections : Asked'[c] \in {Asked[c], NoRequest}
  PROVE  Atomic!Next
<1> DEFINE S == { c \in Connections : Asked'[c] # Asked[c] }
<1>1. Asked' = [ c \in Connections |-> IF c \in S THEN NoRequest ELSE Asked[c] ]
  BY DEF Asked
<1>2. Atomic!Dropped(S)
  BY <1>1 DEF Atomic!Dropped
<1>3. S \in SUBSET Connections
  OBVIOUS
<1> QED BY <1>2, <1>3 DEF Atomic!Next

LEMMA StepsOfTheHelper ==
  ASSUME HelperInv, [HelperNext]_helperVars
  PROVE  [Atomic!Next]_<< stored, Asked, mishaps >>
<1> DEFINE Goal == [Atomic!Next]_<< stored, Asked, mishaps >>
<1>0. mishaps' >= mishaps
  BY CountKept
<1>1. CASE UNCHANGED helperVars
  BY <1>1 DEF helperVars, helper, handling, settings, Asked, Undecided
<1>2. ASSUME NEW c \in Connections, CommitChanges(c) PROVE Goal
  <2>1. Asked[c] = message[c].state /\ message[c].state \in ProxyStates
    BY <1>2, NoRequestFacts, MessageFacts
       DEF HelperInv, OnlySetLocks, Locking, StageOK, Undecided, CommitChanges
  <2>2. Asked' = [ Asked EXCEPT ![c] = NoRequest ]
    BY <1>2 DEF Asked, CommitChanges, Undecided, HelperInv, StageOK
  <2>3. CASE stored' = draft[c] /\ Smooth
    <3>1. stored' = Edited(stored, Asked[c])
      BY <1>2, <2>1, <2>3 DEF HelperInv, NoLostUpdate, CommitChanges
    <3>2. Atomic!TakesEffect(c)
      BY <2>1, <2>2, <2>3, <3>1, NoRequestFacts DEF Atomic!TakesEffect, Smooth
    <3> QED BY <3>2 DEF Atomic!Next
  <2>4. CASE UNCHANGED stored
    <3>1. \A k \in Connections : Asked'[k] \in {Asked[k], NoRequest}
      BY <2>2 DEF Asked
    <3> QED BY <1>0, <2>4, <3>1, DroppingSteps
  <2> QED BY <1>2, <2>3, <2>4 DEF CommitChanges
<1>3. ASSUME NEW c \in Connections, Serves(c), ~CommitChanges(c) PROVE Goal
  <2>1. UNCHANGED stored
    BY <1>3 DEF Serves, NoService, Accept, Drop, Greet, Refuse, Dispatch, Lost,
              CleanUpConnection, AssertRight, GetCurrentVersion, GetHttpProxyState, Lock,
              EditConfiguration, ApplyChanges, Unlock, settings
  <2>2. /\ stage'[c] \in Undecided => stage[c] \in Undecided
        /\ message'[c] = message[c] \/ message'[c] = Request("Hello")
    BY <1>3 DEF Serves, NoService, Accept, Drop, Greet, Refuse, Dispatch, Lost,
              CleanUpConnection, AssertRight, GetCurrentVersion, GetHttpProxyState, Lock,
              EditConfiguration, ApplyChanges, Unlock, Answers, GoesOn, handling,
              HelperInv, StageOK, Undecided, Arrives
  <2>3. Request("Hello").type # "SetProxyState"
    BY MessageFacts DEF MessageTypes
  <2>4. \A k \in Connections : Asked'[k] \in {Asked[k], NoRequest}
    BY <1>3, <2>2, <2>3, ServesAlone DEF Asked
  <2> QED BY <1>0, <2>1, <2>4, DroppingSteps
<1>4. ASSUME NEW c \in Connections, Connect(c) PROVE Goal
  <2>1. Request("Hello").type # "SetProxyState"
    BY MessageFacts DEF MessageTypes
  <2>2. \A k \in Connections : Asked'[k] \in {Asked[k], NoRequest}
    BY <1>4, <2>1 DEF Connect, Sends, Asked, HelperInv, StageOK
  <2> QED BY <1>0, <1>4, <2>2, DroppingSteps DEF Connect, settings
<1>5. ASSUME NEW c \in Connections, NEW m \in Messages, Ask(c, m) PROVE Goal
  <2>1. Asked[c] = NoRequest
    BY <1>5 DEF Ask, Answered, HelperInv, AnswersFit, Asked, Undecided
  <2>2. UNCHANGED << stored, mishaps >>
    BY <1>5 DEF Ask, settings
  <2>3. Asked' = [ Asked EXCEPT ![c] = IF m.type = "SetProxyState" THEN m.state ELSE NoRequest ]
    BY <1>5 DEF Ask, Sends, Asked, Undecided, HelperInv, StageOK
  <2>4. CASE m.type = "SetProxyState"
    <3>1. m.state \in ProxyStates
      BY MessageFacts
    <3>2. Atomic!Asks(c)
      BY <2>1, <2>2, <2>3, <2>4, <3>1 DEF Atomic!Asks
    <3> QED BY <3>2 DEF Atomic!Next
  <2>5. CASE m.type # "SetProxyState"
    <3>1. \A k \in Connections : Asked'[k] \in {Asked[k], NoRequest}
      BY <2>3, <2>5 DEF Asked
    <3> QED BY <1>0, <2>2, <3>1, DroppingSteps
  <2> QED BY <2>4, <2>5
<1>6. ASSUME NEW S \in SUBSET Connections, HangUp(S) PROVE Goal
  <2>1. UNCHANGED << stored, Asked >>
    BY <1>6 DEF HangUp, Closes, settings, Asked
  <2> QED BY <1>0, <2>1, DroppingSteps DEF Asked
<1>7. CASE HelperCrashes \/ Install
  <2>1. UNCHANGED stored
    BY <1>7 DEF HelperCrashes, Install, HelperEnds, settings
  <2>2. \A k \in Connections : Asked'[k] = NoRequest
    BY <1>7 DEF HelperCrashes, Install, HelperEnds, Asked, Undecided
  <2> QED BY <1>0, <2>1, <2>2, DroppingSteps
<1>8. CASE SomeoneElseChanges
  <2>1. stored' \in Dictionaries /\ UNCHANGED Asked
    BY <1>8 DEF SomeoneElseChanges, handling, Asked
  <2>2. mishaps' > mishaps
    BY <1>8 DEF SomeoneElseChanges, Mishap, HelperInv, CountOK
  <2>3. Atomic!SomeoneElse
    BY <2>1, <2>2 DEF Atomic!SomeoneElse
  <2> QED BY <2>3 DEF Atomic!Next
<1>9. CASE ElsewhereFails
  <2>1. UNCHANGED << stored, Asked >>
    BY <1>9 DEF ElsewhereFails, helper, settings, handling, Asked
  <2> QED BY <1>0, <2>1, DroppingSteps DEF Asked
<1> QED BY <1>1, <1>2, <1>3, <1>4, <1>5, <1>6, <1>7, <1>8, <1>9 DEF HelperNext, Client

LEMMA StartOfTheHelper == HelperInit => Atomic!Init
BY MessageFacts DEF HelperInit, Atomic!Init, Asked, Undecided

\* XpcServer's handlers, locks, drafts and crashes together make each request to
\* set the state take effect once and as a whole, or not at all.
THEOREM HelperIsAtomic == HelperSpec => ImplementsAtomicSettings
<1>1. HelperSpec => Atomic!Init /\ [][Atomic!Next]_<< stored, Asked, mishaps >>
  BY StartOfTheHelper, StepsOfTheHelper, AlwaysHelperInv, PTL DEF HelperSpec
<1> QED BY <1>1, PTL DEF ImplementsAtomicSettings, Atomic!Spec
================================================================================
