-------------------------------- MODULE SystemProxy --------------------------------
(***************************************************************************)
(* The application and the system's proxy settings: MacProxy, which has    *)
(* the helper change them, and WindowsProxy, which changes them itself,    *)
(* from the constructor to the destructor, with crashes in between.        *)
(*                                                                         *)
(* One instance runs at a time.  All of this is the GUI thread, which      *)
(* waits for each answer of the helper.                                    *)
(***************************************************************************)
EXTENDS Helper

CONSTANTS Ports,            \* ports the application may be configured to
          WindowsAddress    \* 127.0.0.1:9999

ASSUME PortsAssumption == Ports \subseteq Addresses /\ WindowsAddress \in Addresses

VARIABLES
  platform,   \* what ProxyFactory was compiled for
  options,    \* the Internet options of Windows
  pc,         \* the code the application is in
  port,       \* its port
  session,    \* the connection of its XpcServiceClient
  attempts,   \* failed installations of the helper
  saved,      \* hostname_to_restore_ and port_to_restore_, or originalOptions
  original,   \* history: the settings before the application started
  calm        \* history: mishaps at its start, if nothing was under way then

app    == << platform, options, port >>
mac    == << session, attempts >>
kept   == << saved, original, calm >>
vars   == << helperVars, pc, app, mac, kept >>

Up   == {"construct", "probe", "install", "enable", "set", "running", "disable"}
Down == {"off", "closed"}

\* The address that MacProxy makes of the port.
Localhost == [ enabled |-> TRUE, host |-> port ]

WindowsOptions == [ enabled |-> TRUE, host |-> WindowsAddress, rest |-> FALSE ]

\* The settings the program is about.
Settings == IF platform = "windows" THEN options ELSE stored

Init ==
  /\ HelperInit
  /\ platform \in {"mac", "windows"}
  /\ options \in Dictionaries
  /\ platform = "mac"     => options = NoDictionary
  /\ platform = "windows" => stored = NoDictionary /\ signing = "earlier" /\ tool = "absent"
  /\ pc = "off" /\ port \in Ports
  /\ session = NoConnection /\ attempts = 0
  /\ saved = NoDictionary /\ original = Settings /\ calm = 0

--------------------------------------------------------------------------------
\* Starting.

\* Nothing of an earlier instance is still under way, and what is in force is
\* what is stored.
Quiet == /\ applied = stored
         /\ \A c \in Connections : stage[c] # "idle" => open[c]

\* The window is made; the settings file may name another port than last time.
Start ==
  /\ pc \in Down
  /\ pc' = "construct"
  /\ port' \in Ports
  /\ attempts' = 0 /\ saved' = NoDictionary
  /\ original' = Settings
  /\ calm' = (IF Quiet THEN mishaps ELSE calm)
  /\ UNCHANGED << helperVars, platform, options, session >>

\* MacProxy's constructor: init_auth, which throws what nobody catches.
InitAuth ==
  /\ platform = "mac" /\ pc = "construct"
  /\ \/ pc' = "probe" /\ Smooth
     \/ pc' = "off" /\ Mishap
  /\ UNCHANGED << helper, app, mac, kept >>

\* Moving on; the connections that are left go with the process.
Mine == { c \in Connections : open[c] }

Leaving(place) == IF place \in Down THEN Mine ELSE {}

\* What a failed call ends in: should_install_helper_tool takes it for a reason
\* to install, enable() lets it end the application, and the destructor logs it.
AfterFailure == CASE pc = "probe" -> "install" [] pc = "enable" -> "off"
                  [] pc = "disable" -> "closed"

\* create_client_with_rights.  When the rights are refused, acquire_rights reads
\* a pointer that was never set, and crashes or gets past it and throws.
OpenClient ==
  /\ platform = "mac" /\ pc \in {"probe", "enable", "disable"} /\ session = NoConnection
  /\ \E c \in Connections : Connect(c) /\ session' = c
  /\ UNCHANGED << pc, app, attempts, kept >>

NoClient ==
  /\ platform = "mac" /\ pc \in {"probe", "enable", "disable"} /\ session = NoConnection
  /\ pc' \in {AfterFailure, "off"}
  /\ Closes(Leaving(pc')) /\ Mishap
  /\ UNCHANGED << app, mac, kept >>

--------------------------------------------------------------------------------
\* The calls of should_install_helper_tool, enable and disable: what is done
\* with each answer of the helper.

Waiting(type) == session # NoConnection /\ Answered(session) /\ reply[session].type = type

Drops(S, place) == /\ Closes(S \cup Leaving(place)) /\ Smooth
                   /\ session' = NoConnection
                   /\ pc' = place

Finish(place) == Drops({session}, place)

\* The Hello is sent by a constructor: when it fails there is no destructor, and
\* the connection is left to the end of the process.
CallFails ==
  /\ Waiting("Error")
  /\ Drops(IF message[session].type = "Hello" THEN {} ELSE {session}, AfterFailure)
  /\ UNCHANGED << app, attempts, kept >>

Authorized ==
  /\ Waiting("Hello")
  /\ Ask(session, CASE pc = "probe"   -> Request("GetToolVersion")
                    [] pc = "enable"  -> Request("GetProxyState")
                    [] pc = "disable" -> SetProxyState([ enabled |-> FALSE, host |-> saved.host ]))
  /\ UNCHANGED << pc, app, mac, kept >>

ShouldInstall ==
  /\ Waiting("GetToolVersion")
  /\ Finish(IF reply[session].version = "current" THEN "enable" ELSE "install")
  /\ UNCHANGED << app, attempts, kept >>

\* enable(): keep what is to be restored, without whether it was enabled.
RedirectForgetting ==
  /\ Waiting("GetProxyState") /\ reply[session].state # Localhost
  /\ Ask(session, SetProxyState(Localhost))
  /\ UNCHANGED << pc, app, mac, kept >>

Redirect ==
  /\ Waiting("GetProxyState") /\ reply[session].state # Localhost
  /\ saved' = [ saved EXCEPT !.host = reply[session].state.host ]
  /\ Ask(session, SetProxyState(Localhost))
  /\ UNCHANGED << pc, app, mac, original, calm >>

AlreadyNamed ==
  /\ Waiting("GetProxyState") /\ reply[session].state.host = Localhost.host
  /\ Finish("running")
  /\ UNCHANGED << app, attempts, kept >>

AlreadyEnabled ==
  /\ Waiting("GetProxyState") /\ reply[session].state = Localhost
  /\ Finish("running")
  /\ UNCHANGED << app, attempts, kept >>

StateIsSetMisread ==
  /\ Waiting("SetProxyState")
  /\ Finish(AfterFailure)
  /\ UNCHANGED << app, attempts, kept >>

StateIsSet ==
  /\ Waiting("SetProxyState")
  /\ Finish(IF pc = "enable" THEN "running" ELSE "closed")
  /\ UNCHANGED << app, attempts, kept >>

--------------------------------------------------------------------------------
\* bless_helper_program, at most three times.

\* The CFErrorRef is not initialised, and may be released after a success: it
\* then crashes in the next state.
Bless ==
  /\ pc = "install"
  /\ Install
  /\ pc' = "enable" /\ attempts' = 0
  /\ UNCHANGED << app, session, kept >>

BlessFails ==
  /\ pc = "install"
  /\ attempts' = attempts + 1
  /\ pc' = (IF attempts + 1 = 3 THEN "off" ELSE "install")
  /\ Closes(Leaving(pc')) /\ Smooth
  /\ UNCHANGED << app, session, kept >>

--------------------------------------------------------------------------------
\* WindowsProxy.

\* InternetQueryOption; what it throws is caught by main.
QueryOptions ==
  /\ platform = "windows" /\ pc = "construct"
  /\ \/ saved' = options /\ pc' = "set" /\ Smooth
     \/ pc' = "off" /\ UNCHANGED saved /\ Mishap
  /\ UNCHANGED << helper, app, mac, original, calm >>

SetOptions ==
  /\ pc = "set"
  /\ \/ options' = WindowsOptions /\ pc' = "running" /\ Smooth
     \/ UNCHANGED options /\ pc' = "off" /\ Mishap
  /\ UNCHANGED << helper, platform, port, mac, kept >>

\* The destructor, which does not look at the result.
RestoreOptions ==
  /\ platform = "windows" /\ pc = "disable"
  /\ pc' = "closed"
  /\ \/ options' = saved /\ Smooth
     \/ UNCHANGED options /\ Mishap
  /\ UNCHANGED << helper, platform, port, mac, kept >>

--------------------------------------------------------------------------------
\* The window is closed, and deletes its proxy.
Close ==
  /\ pc = "running"
  /\ pc' = "disable"
  /\ UNCHANGED << helperVars, app, mac, kept >>

\* The application dies, wherever it is; what it has sent may still be served.
Crash ==
  /\ pc \in Up
  /\ pc' = "off"
  /\ Closes(Mine) /\ Mishap
  /\ session' = NoConnection
  /\ UNCHANGED << app, attempts, kept >>

HelperStep ==
  /\ platform = "mac"
  /\ (\E c \in Connections : Serves(c)) \/ HelperCrashes
  /\ UNCHANGED << pc, app, mac, kept >>

Intervention ==
  /\ \/ /\ platform = "mac" /\ SomeoneElseChanges
        /\ UNCHANGED options
     \/ /\ platform = "windows" /\ options' \in Dictionaries /\ Mishap
        /\ UNCHANGED helper
  /\ UNCHANGED << pc, platform, port, mac, kept >>

Works == \/ InitAuth \/ OpenClient \/ NoClient \/ CallFails \/ Authorized
         \/ ShouldInstall \/ Redirect \/ AlreadyEnabled \/ StateIsSet
         \/ Bless \/ BlessFails
         \/ QueryOptions \/ SetOptions \/ RestoreOptions

Next == Start \/ Works \/ Close \/ Crash \/ HelperStep \/ Intervention

Spec == Init /\ [][Next]_vars

\* Each handler of the helper goes on, the lock is always given back, the user
\* answers, and the GUI thread goes on with each answer.
FairSpec == /\ Spec
            /\ WF_vars(Works)
            /\ \A c \in Connections :
                 WF_vars(Serves(c) /\ UNCHANGED << pc, app, mac, kept >>)

--------------------------------------------------------------------------------
\* Properties.

\* The helper's part of each is in module Helper.
TypeOK ==
  /\ HelperTypeOK
  /\ platform \in {"mac", "windows"}
  /\ pc \in Up \cup Down
  /\ port \in Ports
  /\ session \in Connections \cup {NoConnection}
  /\ attempts \in 0 .. 3
  /\ options \in Dictionaries /\ saved \in Dictionaries /\ original \in Dictionaries
  /\ calm \in 0 .. MaxMishaps

\* Nothing has gone wrong since the application was started, and nothing of
\* before was still under way.
Untroubled == mishaps = calm

\* MacProxy::enable returned, so the system sends its requests here: also when
\* it only found the settings of an instance that crashed.
RunningMeansPointed ==
  platform = "mac" /\ pc = "running" /\ Untroubled => StateOf(applied) = Localhost

\* An HTTP proxy was configured before the application was started, and not by an
\* instance of it that crashed.
HadProxy == original.host # NoAddress /\ StateOf(original) # Localhost

\* A window was opened and closed without trouble.  On Windows the options are
\* those of before.  On macOS no HTTP proxy is left enabled, so nothing points at
\* this one any more, even if an earlier instance left it so; and a proxy that was
\* there is named again, with everything that was configured beside it.
\* Whether it was enabled is not among what comes back; and where no HTTP proxy
\* was named before, what is beside it goes too (TrustyService.cpp:359-362).
CloseGivesBack ==
  pc = "closed" /\ Untroubled =>
    /\ applied = stored
    /\ platform = "windows" => options = original
    /\ platform = "mac"     => ~stored.enabled
    /\ platform = "mac" /\ HadProxy =>
         stored.host = original.host /\ stored.rest = original.rest

\* An application that did not get as far as running left the settings alone.
FailedStartTouchesNothing ==
  pc = "off" /\ Untroubled => Settings = original /\ applied = stored

\* The application asks the helper only in the way the helper expects, so
\* everything that holds of a helper with any clients holds of this one.
UsesHelperAsSpecified == HelperSpec

\* A window that is being closed is closed: ~MacProxy has its answer, whoever
\* holds the lock, or an error.
ClosingEnds == pc = "disable" ~> pc \in Down

\* A start ends, with a window or without.
StartingEnds == pc = "construct" ~> pc \in Down \cup {"running"}

================================================================================
