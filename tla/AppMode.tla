------------------------------- MODULE AppMode -------------------------------
(***************************************************************************)
(* The process around the runner, from the saved form to the exit: cli,    *)
(* run_app_mode and run_config (the configuration, the recording, the demo *)
(* server, serve, and the way out through the ExitStack), and demo-server, *)
(* which runs the demo server alone.  Auto-configure works on the form     *)
(* before a start.  Runner models what runner.run() does.                  *)
(***************************************************************************)
EXTENDS Configuration, DemoServer

CONSTANTS Forms,       \* the brokers[] a saved form can have
          Answers,     \* the brokers that can answer the probe, in order
          Advanced,    \* Advanced: prefix, cert, key
          DemoName     \* the name of the demo's broker

\* A host in a form is a text or left empty; an answer's never is, nor its label.
ASSUME FormAssumption ==
  \A f \in Forms : \A i \in DOMAIN f : f[i].host \in Text \cup {""} /\ f[i].port \in Number

ASSUME AnswerAssumption ==
  \A a \in Answers : /\ a \in Seq([label : Text, host : Text, port : Number])
                     /\ 2..(Len(a) + 1) \subseteq Number

ASSUME DemoAssumption == DemoName # "" /\ NameOK(DemoName, Reserved)

VARIABLES
  mode,        \* the command: "app", "demo" or "demo-server"
  saved,       \* the saved document: "ok", "legacy" or "invalid" by its schema
  form,        \* its brokers[]
  advanced,    \* its advanced settings
  file,        \* --file was given
  stage,       \* where run_config or demo_server is
  names,       \* the brokers' names, once resolved
  recording,   \* the TraceWriter is open
  exitStatus,
  \* history, read by properties only
  probed       \* Auto-configure proposed the form

given   == <<mode, saved, advanced, file>>
appVars == <<given, form, stage, names, recording, exitStatus, probed>>
vars    == <<appVars, demoVars>>

Init ==
  /\ mode \in {"app", "demo", "demo-server"} /\ saved \in {"ok", "legacy", "invalid"}
  /\ form \in Forms /\ advanced \in Advanced /\ file \in BOOLEAN
  /\ mode # "app" => form = <<>>        \* not read
  /\ mode = "demo-server" => saved = "ok" /\ ~file
  /\ stage = "form" /\ names = <<>>
  /\ recording = FALSE /\ exitStatus = 0 /\ probed = FALSE
  /\ DemoInit

-----------------------------------------------------------------------------
\* auto_config with no brokers in the form.  One with brokers keeps them.
AutoConfigure ==
  /\ stage = "form" /\ form = <<>> /\ mode = "app"
  /\ \E a \in Answers : form' = Probed(a)
  /\ form' # <<>>
  /\ probed' = TRUE
  /\ UNCHANGED <<given, stage, names, recording, exitStatus, demoVars>>

\* The process ends on the way: sys.exit(1) or an exception, unwinding.
Refuse == stage' = "unwinding" /\ exitStatus' = 1

\* run_app_mode and run_config: the document and the prefix, then the brokers.
Resolve ==
  /\ stage = "form" /\ mode # "demo-server"
  /\ IF /\ saved = "ok" /\ NameOK(advanced.prefix, {})
        /\ mode = "demo" \/ Resolves(form, advanced)
     THEN /\ stage' = "resolved"
          /\ names' = IF mode = "demo" THEN <<DemoName>> ELSE Names(form)
          /\ UNCHANGED exitStatus
     ELSE Refuse /\ UNCHANGED names
  /\ UNCHANGED <<given, form, recording, probed, demoVars>>

\* build_clients: a device map, TLS file or topic overlap may refuse.
Build ==
  /\ stage = "resolved"
  /\ IF \A i \in DOMAIN form : form[i].loads
     THEN stage' = "built" /\ UNCHANGED exitStatus
     ELSE Refuse
  /\ UNCHANGED <<given, form, names, recording, probed, demoVars>>

\* The TraceWriter opens its file, or cannot.
Record ==
  /\ stage = "built"
  /\ \/ /\ stage' = IF mode = "demo" THEN "demo" ELSE "serve"
        /\ recording' = file /\ UNCHANGED exitStatus
     \/ (file /\ Refuse /\ UNCHANGED recording)
  /\ UNCHANGED <<given, form, names, probed, demoVars>>

StartDemo ==
  /\ stage = "demo" \/ (stage = "form" /\ mode = "demo-server")
  /\ stage' = "demo" /\ StartThread
  /\ UNCHANGED <<given, form, names, recording, exitStatus, probed>>

\* server.start() returned or raised.  stop is on the ExitStack only now.
DemoStarted ==
  /\ stage = "demo"
  /\ \/ (owner = "up" /\ stage' = "serve" /\ UNCHANGED exitStatus)
     \/ (owner \in {"failed", "gave up"} /\ Refuse)
  /\ UNCHANGED <<given, form, names, recording, probed, demoVars>>

\* runner.run() returns and serve exits with its verdict, or demo_server is told
\* to stop.
ServeEnds ==
  /\ stage = "serve"
  /\ stage' = "unwinding"
  /\ exitStatus' \in IF mode = "demo-server" THEN {0} ELSE {0, 1}
  /\ UNCHANGED <<given, form, names, recording, probed, demoVars>>

StopDemo == stage = "unwinding" /\ StopBegins /\ UNCHANGED appVars

\* Mutant: the recording is closed first.
ExitAtOnce ==
  /\ stage = "unwinding"
  /\ stage' = "exit" /\ recording' = FALSE
  /\ UNCHANGED <<given, form, names, exitStatus, probed, demoVars>>

\* The recording is closed after the demo server is stopped.
Exit ==
  /\ stage = "unwinding" /\ owner \notin {"up", "stopping", "joining"}
  /\ stage' = "exit" /\ recording' = FALSE
  /\ UNCHANGED <<given, form, names, exitStatus, probed, demoVars>>

AppStep == Resolve \/ Build \/ Record \/ StartDemo \/ DemoStarted \/ StopDemo \/ Exit

Next == \/ AutoConfigure \/ AppStep \/ ServeEnds
        \/ stage # "exit" /\ (OwnerStep \/ ThreadStep) /\ UNCHANGED appVars

Spec == Init /\ [][Next]_vars

\* The threads run and waits with a limit end.  Nobody has to start the process,
\* and the runner need not return.
FairSpec == /\ Spec
            /\ WF_vars(stage # "form" /\ AppStep)
            /\ WF_vars(stage # "exit" /\ OwnerStep /\ UNCHANGED appVars)

-----------------------------------------------------------------------------
(***************************************************************************)
(* Properties                                                              *)
(***************************************************************************)
TypeOK ==
  /\ mode \in {"app", "demo", "demo-server"} /\ saved \in {"ok", "legacy", "invalid"}
  /\ advanced \in Advanced
  /\ file \in BOOLEAN /\ recording \in BOOLEAN /\ probed \in BOOLEAN
  /\ stage \in {"form", "resolved", "built", "demo", "serve", "unwinding", "exit"}
  /\ exitStatus \in {0, 1}
  /\ DOMAIN names \in {{}, DOMAIN form, {1}}
  /\ DemoTypeOK

\* "shared source carries every broker": no two brokers, and no broker and the
\* extension's own logs, ever trace to one place, however names are typed, left
\* to default, or given their port - with a prefix and without.
TracePathsApart ==
  LET paths == [i \in DOMAIN names |-> Layout(advanced.prefix, names[i])]
  IN  \A i \in DOMAIN names : /\ paths[i] # LogLayout(advanced.prefix)
                              /\ \A j \in DOMAIN names \ {i} : paths[i] # paths[j]

\* "Sanitized like the default names, so `192.168.1.10` finds `192_168_1_10`": an
\* action finds each broker by its name, and by its host when its name is that
\* host's default.
BrokersFound ==
  \A i \in DOMAIN names :
     /\ Lookup(names, names[i]) = {i}
     /\ mode = "app" /\ form[i].name = "" /\ ~Collides(form, i) =>
          Lookup(names, form[i].host) = {i}

\* "Review, then save and start": the brokers Auto-configure proposes start, but
\* for a label that is reserved or a half set pair under Advanced.
ProbeServes ==
  probed /\ advanced.cert = advanced.key /\ (\A i \in DOMAIN form : form[i].name \notin Reserved)
    => Resolves(form, advanced)

\* stop() gets through: when it has returned, the demo thread has its event
\* coming or is on the way out, at whatever point the publisher failed.
StopHeard == owner \in Stopped => stopSet # "clear" \/ demo \in {"shutdown", "closing", "ended"}

\* The ExitStack: a recording that was asked for is open while brokers are served
\* and until the demo server is stopped.
RecordsAll == file /\ (stage = "serve" \/ owner \in {"up", "stopping", "joining"}) => recording

\* A process that has left the form serves or exits, and one on the way out exits,
\* whatever the demo thread does.
Exits == stage \notin {"form", "serve"} ~> stage \in {"serve", "exit"}
=============================================================================
