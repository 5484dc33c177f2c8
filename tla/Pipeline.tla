-------------------------------- MODULE Pipeline ---------------------------------
(***************************************************************************)
(* All passes of the repository as their driver sees them: opt loads the   *)
(* plugins, asks their callbacks for the passes that the pipeline names,   *)
(* and runs these over the module, over each function, or over the loops   *)
(* of each function.  Results of analyses are cached, and dropped by what  *)
(* each pass returns as preserved.  The tool `static` runs one pass        *)
(* without plugins.                                                        *)
(*                                                                         *)
(* What a pass does to the program is abstracted to the fact that it       *)
(* changed a function (PassManager); what it asks for, may alter and       *)
(* declares preserved is kept.                                             *)
(***************************************************************************)
EXTENDS Naturals, Sequences, FiniteSets

CONSTANTS CommandLines, \* those opt or static may be run with
          Functions,    \* the functions there may be
          Modules,      \* sequences of functions: those a module defines
          OptNone,      \* the functions with the attribute optnone
          Wrapper,      \* printf_wrapper, the function that dynamic-cc adds
          Module        \* a unit of its own: all functions together


Analyses ==
    {"riv", "find-fcmp-eq", "opcode-counter", "static-cc", "memory-ssa", "scalar-evolution"}
LLVMAnalyses == {"memory-ssa", "scalar-evolution"}

--------------------------------------------------------------------------------
\* What a plugin tells opt: the name it parses, whether it adds its pass to the pipeline of
\* a module, a function or a loop, the analyses it registers, and the plugins that define
\* symbols it leaves undefined.
Plugin(name, level, registers, undefined) ==
    [pass |-> name, level |-> level, registers |-> registers, undefined |-> undefined]

HelloWorldPlugin == Plugin("hello-world", "function", {}, {})
InjectFuncCallPlugin == Plugin("inject-func-call", "module", {}, {})
\* The printer added to the pipelines of functions.
StaticCallCounterPlugin_Function == Plugin("print<static-cc>", "function", {"static-cc"}, {})
StaticCallCounterPlugin == Plugin("print<static-cc>", "module", {"static-cc"}, {})
DynamicCallCounterPlugin == Plugin("dynamic-cc", "module", {}, {})
FindFCmpEqPlugin == Plugin("print<find-fcmp-eq>", "function", {"find-fcmp-eq"}, {})
ConvertFCmpEqPlugin == Plugin("convert-fcmp-eq", "function", {}, {"FindFCmpEq"})
MBAAddPlugin == Plugin("mba-add", "function", {}, {})
MBASubPlugin == Plugin("mba-sub", "function", {}, {})
RIVPlugin == Plugin("print<riv>", "function", {"riv"}, {})
\* A build that does not share RIV::Key with libRIV.
DuplicateBBPlugin_OwnKey == Plugin("duplicate-bb", "function", {}, {})
DuplicateBBPlugin == Plugin("duplicate-bb", "function", {}, {"RIV"})
OpcodeCounterPlugin == Plugin("print<opcode-counter>", "function", {"opcode-counter"}, {})
MergeBBPlugin == Plugin("merge-bb", "function", {}, {})
AffineRecurrencePlugin == Plugin("affine-recurrence", "function", {}, {})
DerivedInductionVarPlugin == Plugin("induction-var-elim", "function", {}, {})
MemorySSADemoPlugin == Plugin("memssa-demo", "function", {"memory-ssa"}, {})
DeadStoreEliminationPlugin == Plugin("dead-store", "function", {}, {})
SimpleLICMPlugin == Plugin("simple-licm", "loop", {}, {})

Plugins ==
    [HelloWorld |-> HelloWorldPlugin, InjectFuncCall |-> InjectFuncCallPlugin,
     StaticCallCounter |-> StaticCallCounterPlugin, DynamicCallCounter |-> DynamicCallCounterPlugin,
     FindFCmpEq |-> FindFCmpEqPlugin, ConvertFCmpEq |-> ConvertFCmpEqPlugin,
     MBAAdd |-> MBAAddPlugin, MBASub |-> MBASubPlugin, RIV |-> RIVPlugin,
     DuplicateBB |-> DuplicateBBPlugin, OpcodeCounter |-> OpcodeCounterPlugin,
     MergeBB |-> MergeBBPlugin, AffineRecurrence |-> AffineRecurrencePlugin,
     DerivedInductionVar |-> DerivedInductionVarPlugin, MemorySSADemo |-> MemorySSADemoPlugin,
     DeadStoreElimination |-> DeadStoreEliminationPlugin, SimpleLICM |-> SimpleLICMPlugin]

--------------------------------------------------------------------------------
\* What a run of a pass may come to: the analyses whose results its changes may alter, none
\* if it changes nothing, and those that it declares preserved.
Unchanged == [altered |-> {}, preserved |-> Analyses]
AllIfUnchanged(altered) == {Unchanged, [altered |-> altered, preserved |-> {}]}

\* A pass that reports, and one that transforms.  asks is the analysis whose result it gets
\* from the analysis manager ("" if none), skipped the functions it is not run on.
Reporter(asks, skipped) ==
    [kind |-> "reporter", asks |-> asks, skipped |-> skipped, outcomes |-> {Unchanged}]
Transformer(asks, skipped, outcomes) ==
    [kind |-> "transformer", asks |-> asks, skipped |-> skipped, outcomes |-> outcomes]
Required == {}

HelloWorld == Reporter("", Required)
StaticCallCounterPrinter == Reporter("static-cc", Required)
FindFCmpEqPrinter == Reporter("find-fcmp-eq", OptNone)
RIVPrinter == Reporter("riv", OptNone)
OpcodeCounterPrinter == Reporter("opcode-counter", Required)
AffineRecurrence == Reporter("scalar-evolution", OptNone)
MemorySSADemoPass == Reporter("memory-ssa", OptNone)

\* The injected instructions compute i32 values in the entry block; no fcmp is touched.
Injected == Analyses \ {"find-fcmp-eq"}

\* PreservedAnalyses::all() for a changed module.
InjectFuncCall_All ==
    Transformer("", Required, {Unchanged, [altered |-> Injected, preserved |-> Analyses]})
InjectFuncCall == Transformer("", Required, AllIfUnchanged(Injected))
DynamicCallCounter == Transformer("", Required, AllIfUnchanged(Injected))

ConvertFCmpEq ==
    Transformer("find-fcmp-eq", Required, AllIfUnchanged({"riv", "find-fcmp-eq", "opcode-counter"}))
MBAAdd == Transformer("", Required, AllIfUnchanged({"riv", "opcode-counter", "scalar-evolution"}))
MBASub == Transformer("", Required, AllIfUnchanged({"riv", "opcode-counter", "scalar-evolution"}))

\* PreservedAnalyses::none() and all() swapped.
DuplicateBB_Swapped ==
    Transformer("riv", Required, {[altered |-> {}, preserved |-> {}],
                                  [altered |-> Analyses, preserved |-> Analyses]})
DuplicateBB == Transformer("riv", Required, AllIfUnchanged(Analyses))
MergeBB == Transformer("", Required, AllIfUnchanged(Analyses))

\* Whatever has been done is ScalarEvolution preserved, which follows the PHIs that are
\* replaced by itself.
DerivedInductionVar ==
    Transformer("scalar-evolution", OptNone,
                [altered : {{}, {"riv", "opcode-counter"}}, preserved : {{"scalar-evolution"}}])

DeadStoreElimination ==
    Transformer("memory-ssa", OptNone,
                [altered : {{}, {"opcode-counter", "memory-ssa"}}, preserved : {Analyses}])

\* Run by LLVM's adaptor for loops, which asks for ScalarEvolution and preserves it.  What it
\* says of a loop depends on which values are computed inside.  No loop may have a preheader.
SimpleLICM ==
    Transformer("scalar-evolution", OptNone,
                {Unchanged} \cup
                [altered : {{}, {"riv", "find-fcmp-eq", "scalar-evolution"}},
                 preserved : {{"scalar-evolution"}}])

\* LLVM's own passes of an optimisation pipeline.
Optimise == Transformer("", Required, AllIfUnchanged(Analyses))

PassNames == {Plugins[l].pass : l \in DOMAIN Plugins} \cup {"default<O1>"}
Passes ==
    [p \in PassNames |->
        CASE p = "hello-world"           -> HelloWorld
          [] p = "inject-func-call"      -> InjectFuncCall
          [] p = "print<static-cc>"      -> StaticCallCounterPrinter
          [] p = "dynamic-cc"            -> DynamicCallCounter
          [] p = "print<find-fcmp-eq>"   -> FindFCmpEqPrinter
          [] p = "convert-fcmp-eq"       -> ConvertFCmpEq
          [] p = "mba-add"               -> MBAAdd
          [] p = "mba-sub"               -> MBASub
          [] p = "print<riv>"            -> RIVPrinter
          [] p = "duplicate-bb"          -> DuplicateBB
          [] p = "print<opcode-counter>" -> OpcodeCounterPrinter
          [] p = "merge-bb"              -> MergeBB
          [] p = "affine-recurrence"     -> AffineRecurrence
          [] p = "induction-var-elim"    -> DerivedInductionVar
          [] p = "memssa-demo"           -> MemorySSADemoPass
          [] p = "dead-store"            -> DeadStoreElimination
          [] p = "simple-licm"           -> SimpleLICM
          [] p = "default<O1>"           -> Optimise]

--------------------------------------------------------------------------------
Levels == {"module", "function", "loop"}

\* A command line names a tool, plugins there are, and a pipeline whose names are written
\* with or without adaptors.
Text == [in : {"", "function", "loop"}, names : Seq(STRING) \ {<<>>}]
CommandLine == [tool : {"opt", "static"}, plugins : Seq(DOMAIN Plugins), text : Seq(Text)]
ASSUME CommandLinesAssumption == CommandLines \subseteq CommandLine
ASSUME ModulesAssumption ==
    Modules \subseteq Seq(Functions) /\ Wrapper \in Functions /\ Module \notin Functions

--------------------------------------------------------------------------------
VARIABLES
    cmd,        \* the command line, [tool, plugins, text]
    status,     \* "loading", "parsing", "running", "done" or "refused"
    loaded,     \* the plugins loaded so far
    registered, \* the analyses the analysis managers know
    groups,     \* the pipeline: a sequence of [level, passes]
    at,         \* where it stands: [group, fn, pass], indices from 1
    defined,    \* the functions the module defines, in its order
    ir,         \* the changes made to the program, as in PassManager
    cached,     \* the results the analysis managers hold, [unit, analysis, shown]
    all,        \* whether all passes of the current group preserved everything so far
    out         \* the reports, as in PassManager
vars == <<cmd, status, loaded, registered, groups, at, defined, ir, cached, all, out>>

\* Where changes are declared preserved that are not: dead-store returns
\* PreservedAnalyses::all() after erasing stores, and simple-licm moves instructions out of a
\* loop without telling the ScalarEvolution that its adaptor preserves.
Unreported ==
    {<<"dead-store", "opcode-counter">>, <<"dead-store", "memory-ssa">>,
     <<"simple-licm", "scalar-evolution">>}

Manager == INSTANCE PassManager
Says(a, u) == Manager!Says(a, u)
ToShow(S, a) == Manager!ToShow(S, a)

Fns == {defined[i] : i \in DOMAIN defined}
Start == [group |-> 1, fn |-> 1, pass |-> 1]

Init ==
    /\ cmd \in CommandLines
    /\ status = "loading"
    /\ loaded = <<>>
    /\ registered = {}
    /\ groups = <<>>
    /\ at = Start
    /\ defined \in Modules
    /\ ir = {}
    /\ cached = {}
    /\ all = TRUE
    /\ out = {}

IsLoaded(l) == \E i \in DOMAIN loaded : loaded[i] = l
NextPlugin == cmd.plugins[Len(loaded) + 1]

\* -load-pass-plugin.
LoadPlugin ==
    /\ status = "loading" /\ cmd.tool = "opt" /\ Len(loaded) < Len(cmd.plugins)
    /\ \A l \in Plugins[NextPlugin].undefined : IsLoaded(l)
    /\ loaded' = Append(loaded, NextPlugin)
    /\ UNCHANGED <<cmd, status, registered, groups, at, defined, ir, cached, all, out>>

\* A symbol of the plugin is defined nowhere: the dynamic linker refuses it, and opt ends.
UndefinedSymbol ==
    /\ status = "loading" /\ cmd.tool = "opt" /\ Len(loaded) < Len(cmd.plugins)
    /\ \E l \in Plugins[NextPlugin].undefined : ~ IsLoaded(l)
    /\ status' = "refused"
    /\ UNCHANGED <<cmd, loaded, registered, groups, at, defined, ir, cached, all, out>>

\* The analysis managers are filled: with LLVM's analyses, then by the plugins' callbacks.
RegisterAnalyses ==
    /\ status = "loading" /\ cmd.tool = "opt" /\ Len(loaded) = Len(cmd.plugins)
    /\ registered' = LLVMAnalyses \cup UNION {Plugins[loaded[i]].registers : i \in DOMAIN loaded}
    /\ status' = "parsing"
    /\ UNCHANGED <<cmd, loaded, groups, at, defined, ir, cached, all, out>>

--------------------------------------------------------------------------------
\* The text of a pipeline is a sequence of [in, names]: names of passes, in is "function" or
\* "loop" for those written function(...) or function(loop(...)) and "" for bare ones.

\* Some plugin's callback adds the pass of that name to a pipeline of that level.
Parses(name, level) ==
    \E i \in DOMAIN loaded : Plugins[loaded[i]].pass = name /\ Plugins[loaded[i]].level = level

\* A text that starts with a bare name is one of the level of that name.
LevelOf(i) ==
    LET g == cmd.text[i]
    IN  IF g.in # "" THEN g.in
        ELSE IF i = 1 /\ Parses(g.names[1], "function") THEN "function"
        ELSE IF i = 1 /\ Parses(g.names[1], "loop") THEN "loop"
        ELSE "module"
Known == \A i \in DOMAIN cmd.text : \A n \in DOMAIN cmd.text[i].names :
            Parses(cmd.text[i].names[n], LevelOf(i))

\* -passes=default<O1>: the start of the vectoriser is where OpcodeCounter has its printer put.
OptimisationPipeline ==
    <<[level |-> "module", passes |-> <<"default<O1>">>],
      [level |-> "function",
       passes |-> IF IsLoaded("OpcodeCounter") THEN <<"print<opcode-counter>">> ELSE <<>>],
      [level |-> "module", passes |-> <<"default<O1>">>]>>
IsOptimisation == cmd.text = <<[in |-> "", names |-> <<"default<O1>">>]>>

ParsePipeline ==
    /\ status = "parsing"
    /\ IsOptimisation \/ Known
    /\ groups' = IF IsOptimisation THEN OptimisationPipeline
                 ELSE [i \in DOMAIN cmd.text |-> [level |-> LevelOf(i), passes |-> cmd.text[i].names]]
    /\ status' = "running"
    /\ UNCHANGED <<cmd, loaded, registered, at, defined, ir, cached, all, out>>

UnknownPass ==
    /\ status = "parsing"
    /\ ~ IsOptimisation /\ ~ Known
    /\ status' = "refused"
    /\ UNCHANGED <<cmd, loaded, registered, groups, at, defined, ir, cached, all, out>>

\* The tool static: it reads a module, or cannot, and runs one printer over it.
CountStaticCalls ==
    /\ status = "loading" /\ cmd.tool = "static"
    /\ groups' = <<[level |-> "module", passes |-> <<"print<static-cc>">>]>>
    /\ registered' = {"static-cc"}
    /\ status' = "running"
    /\ UNCHANGED <<cmd, loaded, at, defined, ir, cached, all, out>>
ErrorReadingFile ==
    /\ status = "loading" /\ cmd.tool = "static"
    /\ status' = "refused"
    /\ UNCHANGED <<cmd, loaded, registered, groups, at, defined, ir, cached, all, out>>

--------------------------------------------------------------------------------
Group == groups[at.group]
InGroup == status = "running" /\ at.group <= Len(groups)
Unit == IF Group.level = "module" THEN Module ELSE defined[at.fn]

\* The next pass of the group, on the unit it has come to.
AtPass ==
    /\ InGroup
    /\ at.pass <= Len(Group.passes)
    /\ Group.level # "module" => at.fn <= Len(defined)
Name == Group.passes[at.pass]
Pass == Passes[Name]

\* A pass that is not required leaves optnone functions alone.
Skipped == Unit \in Pass.skipped

\* FAM.getResult, MAM.getResult: a result that is cached is used, another one is computed.
Found == {c \in cached : c.unit = Unit /\ c.analysis = Pass.asks}
Result == IF Found # {} THEN (CHOOSE c \in Found : TRUE).shown ELSE Says(Pass.asks, Unit)
Obtained ==
    IF Pass.asks = "" THEN {}
    ELSE {[unit |-> Unit, analysis |-> Pass.asks, shown |-> Result]}

\* What may come of the pass here: inject-func-call and dynamic-cc change every function
\* there is, convert-fcmp-eq ignores those marked optnone.
Possible(o) ==
    /\ Name \in {"inject-func-call", "dynamic-cc"} => (o.altered = {} <=> defined = <<>>)
    /\ Name = "convert-fcmp-eq" /\ Unit \in OptNone => o.altered = {}

\* dynamic-cc adds a function to those the module defines.
Added(o) == IF Name = "dynamic-cc" /\ o.altered # {} THEN {Wrapper} \ Fns ELSE {}
Changes(o) ==
    IF o.altered = {} THEN {}
    ELSE [pass : {Name}, at : {at}, altered : {o.altered},
          fn : IF Unit = Module THEN Fns \cup Added(o) ELSE {Unit}]

\* After a pass over a function only that function's results are dropped, and after one over
\* the module that does not preserve all, those of every function.
Valid(o) ==
    {c \in cached \cup Obtained :
        \/ o.preserved = Analyses
        \/ Unit = Module /\ c.unit = Module /\ c.analysis \in o.preserved
        \/ Unit # Module /\ (c.unit = Unit => c.analysis \in o.preserved)}

\* A reporting pass writes what it was given; memssa-demo may be unable to open its file.
Report == [pass |-> Name, at |-> at, unit |-> Unit, analysis |-> Pass.asks, shown |-> Result]
CannotWrite == Name = "memssa-demo"

\* An analysis manager that is asked for an analysis it does not know fails its assertion:
\* "This analysis pass was not registered prior to being queried".
RunPass ==
    /\ AtPass /\ ~ Skipped
    /\ Pass.asks \in registered \cup {""}
    /\ \E o \in Pass.outcomes :
          /\ Possible(o)
          /\ ir' = ir \cup Changes(o)
          /\ defined' = IF Added(o) = {} THEN defined ELSE Append(defined, Wrapper)
          /\ cached' = Valid(o)
          /\ all' = (all /\ (Unit = Module \/ o.preserved = Analyses))
    /\ \/ Pass.kind = "reporter" /\ out' = out \cup {Report}
       \/ (Pass.kind = "reporter" => CannotWrite) /\ UNCHANGED out
    /\ at' = [at EXCEPT !.pass = @ + 1]
    /\ UNCHANGED <<cmd, status, loaded, registered, groups>>

SkipPass ==
    /\ AtPass /\ Skipped
    /\ at' = [at EXCEPT !.pass = @ + 1]
    /\ UNCHANGED <<cmd, status, loaded, registered, groups, defined, ir, cached, all, out>>

\* All passes of a group are run on one function before the next one.
NextFunction ==
    /\ InGroup /\ Group.level # "module"
    /\ at.fn <= Len(defined) /\ at.pass > Len(Group.passes)
    /\ at' = [group |-> at.group, fn |-> at.fn + 1, pass |-> 1]
    /\ UNCHANGED <<cmd, status, loaded, registered, groups, defined, ir, cached, all, out>>

\* The adaptor that runs a group over the functions returns what all passes have preserved
\* on all of them: only then do the module's own results stay.
NextGroup ==
    /\ InGroup
    /\ IF Group.level = "module" THEN at.pass > Len(Group.passes) ELSE at.fn > Len(defined)
    /\ cached' = IF all THEN cached ELSE {c \in cached : c.unit # Module}
    /\ all' = TRUE
    /\ at' = [group |-> at.group + 1, fn |-> 1, pass |-> 1]
    /\ UNCHANGED <<cmd, status, loaded, registered, groups, defined, ir, out>>

Finish ==
    /\ status = "running" /\ at.group > Len(groups)
    /\ status' = "done"
    /\ UNCHANGED <<cmd, loaded, registered, groups, at, defined, ir, cached, all, out>>

Stopped == status \in {"done", "refused"} /\ UNCHANGED vars

Next ==
    \/ LoadPlugin \/ UndefinedSymbol \/ RegisterAnalyses \/ ParsePipeline \/ UnknownPass
    \/ CountStaticCalls \/ ErrorReadingFile
    \/ RunPass \/ SkipPass \/ NextFunction \/ NextGroup \/ Finish \/ Stopped

Spec == Init /\ [][Next]_vars

--------------------------------------------------------------------------------
\* Types of the state.  A module pass is only ever in a group of the module's level and a
\* function or loop pass in one that a function is at hand for, and results are those of
\* registered analyses.
TypeOK ==
    /\ cmd \in CommandLine
    /\ status \in {"loading", "parsing", "running", "done", "refused"}
    /\ loaded \in Seq(DOMAIN Plugins)
    /\ registered \subseteq Analyses
    /\ groups \in Seq([level : Levels, passes : Seq(PassNames)])
    /\ at \in [group : Nat \ {0}, fn : Nat \ {0}, pass : Nat \ {0}]
    /\ defined \in Seq(Functions)
    /\ \A c \in cached : /\ c.analysis \in registered
                         /\ IF c.analysis = "static-cc" THEN c.unit = Module ELSE c.unit \in Fns
                         /\ c.shown \subseteq ir
    /\ all \in BOOLEAN

\* Whenever a pass may be given a cached result, that result is what the analysis would say
\* of the program as it is, the changes that no pass reported apart.  A function group may
\* leave the module's results behind until it ends, as none of its passes can ask for them.
CacheFresh ==
    \A c \in cached :
        (c.unit = Module => all) => ToShow(c.shown, c.analysis) = ToShow(Says(c.analysis, c.unit), c.analysis)

\* A pipeline that opt accepts never asks for an analysis that is not registered: the plugin
\* that asks for one could not have been loaded before the plugin that registers it.
AnalysesKnown == AtPass /\ ~ Skipped => Pass.asks \in registered \cup {""}

\* Every report is true when it is made: the pipeline, with its caches, is a pass manager
\* that computes every result anew, but for the changes that no pass reported.
ReportsAnew == Manager!Spec

\* The cached results are always what the analyses would say, without exception.
AlwaysFresh ==
    \A c \in cached : (c.unit = Module => all) => c.shown = Says(c.analysis, c.unit)
================================================================================
