------------------------------- MODULE UiSetup -------------------------------
(***************************************************************************)
(* ui-styling: tailwind_config_gen.py and shadcn_add.py, run by agents in  *)
(* one project at the same time.  Both look at what is there and then act. *)
(***************************************************************************)
EXTENDS Naturals

CONSTANTS
  Setup,      \* whoever runs the tools
  Component,  \* shadcn components
  Wanted      \* bound: Wanted[s]: the arguments s may use

VARIABLES
  config,     \* config[n]: "none", "whole" or "torn"
  installed,  \* components with a .tsx file in the ui directory
  ready,      \* components.json: "none", "found", or "elsewhere" when its alias is
              \* not where the components are
  session,    \* session[s]: the tool s runs
  printed     \* printed[s]: what it printed

setupVars == <<config, installed, ready, session, printed>>

\* The four names Tailwind looks for, and a file it does not look for.
ConfigNames == {"js", "cjs", "mjs", "ts"}
OutputName == ConfigNames \cup {"other"}

TailwindArgs == [tool: {"tailwind"}, out: OutputName, force: BOOLEAN, specs: {"good", "bad"},
                 plugins: {"good", "bad"}, validateOnly: BOOLEAN]
ShadcnArgs == [tool: {"add"}, parts: SUBSET Component, overwrite: BOOLEAN, dryRun: BOOLEAN]
         \cup [tool: {"addAll"}, overwrite: BOOLEAN, dryRun: BOOLEAN]

ASSUME SetupAssumption == \A s \in Setup : Wanted[s] \subseteq TailwindArgs \cup ShadcnArgs

Configs == {n \in ConfigNames : config[n] # "none"}

\* foundConfigs and foundParts: what was there when the run began.
NoSession == [stage |-> "idle", args |-> [tool |-> "none"], foundConfigs |-> {}, foundParts |-> {}]

SetupInit ==
  /\ config = [n \in OutputName |-> "none"]
  /\ installed = {} /\ ready = "unknown"
  /\ session = [s \in Setup |-> NoSession]
  /\ printed = [s \in Setup |-> "nothing"]

\* The project the tools are run in: one configuration at most.
OpenProject ==
  /\ ready = "unknown"
  /\ \E n \in OutputName, what \in {"none", "whole"} : config' = [config EXCEPT ![n] = what]
  /\ ready' \in {"none", "found", "elsewhere"}
  /\ UNCHANGED <<installed, session, printed>>

BeginSetup(s, args) ==
  /\ ready # "unknown" /\ session[s].stage = "idle" /\ printed[s] = "nothing"
  /\ session' = [session EXCEPT ![s] =
       [stage |-> "start", args |-> args, foundConfigs |-> Configs, foundParts |-> installed]]
  /\ UNCHANGED <<config, installed, ready, printed>>

Enter(s, stage) ==
  session' = [session EXCEPT ![s].stage = stage] /\ UNCHANGED <<config, installed, ready, printed>>
Exit(s, what) ==
  /\ session' = [session EXCEPT ![s].stage = "idle"]
  /\ printed' = [printed EXCEPT ![s] = what]

\* Specifications without a colon end the run; --validate-only prints the
\* configuration, which refuses a plugin that is not a package name.
GenerateConfig(s) ==
  /\ session[s].stage = "start" /\ session[s].args.tool = "tailwind"
  /\ LET args == session[s].args
     IN \/ /\ args.specs = "bad"
           /\ Exit(s, "invalid") /\ UNCHANGED <<config, installed, ready>>
        \/ /\ args.specs = "good" /\ args.validateOnly
           /\ Exit(s, IF args.plugins = "good" THEN "valid" ELSE "invalid")
           /\ UNCHANGED <<config, installed, ready>>
        \/ args.specs = "good" /\ ~args.validateOnly /\ Enter(s, "check")

Competing_Same(name) == IF config[name] # "none" THEN {name} ELSE {}   \* mutant: only the output
\* The files that keep an unforced run from writing.
Competing(name) ==
  IF name \in ConfigNames THEN Configs ELSE IF config[name] # "none" THEN {name} ELSE {}

\* The configuration is rendered before the file is opened.
CheckConfig(s) ==
  /\ session[s].stage = "check"
  /\ LET args == session[s].args
     IN \/ /\ Competing(args.out) # {} /\ ~args.force
           /\ Exit(s, "refused") /\ UNCHANGED <<config, installed, ready>>
        \/ /\ Competing(args.out) = {} \/ args.force
           /\ \/ args.plugins = "good" /\ Enter(s, "write")
              \/ /\ args.plugins = "bad"
                 /\ Exit(s, "invalid") /\ UNCHANGED <<config, installed, ready>>

\* write_text empties the file and fills it; the second may fail.
WriteConfig(s) ==
  /\ session[s].stage = "write"
  /\ \E content \in {"whole", "torn"} :
       /\ config' = [config EXCEPT ![session[s].args.out] = content]
       /\ Exit(s, IF content = "whole" THEN "written" ELSE "failed")
  /\ UNCHANGED <<installed, ready>>

\* get_installed_components looks where the alias says.
Visible == IF ready = "found" THEN installed ELSE {}

AlreadyThere_All(parts) == parts # {} /\ parts \subseteq Visible   \* mutant: all(...)
AlreadyThere(parts) == parts \cap Visible # {}

CheckComponents(s) ==
  /\ session[s].stage = "start" /\ session[s].args.tool \in {"add", "addAll"}
  /\ LET args == session[s].args
         refused == \/ ready = "none"
                    \/ args.tool = "add" /\ args.parts = {}
                    \/ args.tool = "add" /\ AlreadyThere(args.parts) /\ ~args.overwrite
     IN \/ refused /\ Exit(s, "refused") /\ UNCHANGED <<config, installed, ready>>
        \/ ~refused /\ args.dryRun /\ Exit(s, "would run") /\ UNCHANGED <<config, installed, ready>>
        \/ ~refused /\ ~args.dryRun /\ Enter(s, "npx")

\* npx shadcn add: all of it, or an error after some of it; or there is no npx.
RunNpx(s) ==
  /\ session[s].stage = "npx"
  /\ LET wanted == IF session[s].args.tool = "add" THEN session[s].args.parts ELSE Component
     IN \/ installed' = installed \cup wanted /\ Exit(s, "added")
        \/ \E part \in SUBSET wanted : installed' = installed \cup part /\ Exit(s, "failed")
  /\ UNCHANGED <<config, ready>>

SetupNext ==
  \/ OpenProject
  \/ \E s \in Setup :
       \/ \E args \in Wanted[s] : BeginSetup(s, args)
       \/ GenerateConfig(s) \/ CheckConfig(s) \/ WriteConfig(s)
       \/ CheckComponents(s) \/ RunNpx(s)

SetupSpec == SetupInit /\ [][SetupNext]_setupVars

-----------------------------------------------------------------------------
(* Properties                                                              *)

\* A run without --force that began beside a Tailwind configuration writes none,
\* under whichever of the four names (write_config; ui-styling SKILL.md on an
\* existing configuration).
ConfigStays ==
  \A s \in Setup : session[s].stage = "write" /\ ~session[s].args.force /\ session[s].args.out \in ConfigNames
    => session[s].foundConfigs = {}

\* A run without --overwrite never hands npx a component that was in the alias
\* directory when it began (add_components).
NotReinstalled ==
  \A s \in Setup : session[s].stage = "npx" /\ session[s].args.tool = "add" /\ ~session[s].args.overwrite
    /\ ready = "found" => session[s].args.parts \cap session[s].foundParts = {}

\* What a project has is replaced by --force and --overwrite only.
SetupSound == ConfigStays /\ NotReinstalled
=============================================================================
