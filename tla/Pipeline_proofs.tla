----------------------------- MODULE Pipeline_proofs ------------------------------
(***************************************************************************)
(* What the passes return as preserved is enough for the analysis          *)
(* managers: in every pipeline of any passes over any module, cached       *)
(* results and reports are those of a manager without caches, except for   *)
(* the changes listed in Unreported.                                       *)
(***************************************************************************)
EXTENDS Pipeline, SequenceTheorems, TLAPS

\* The passes there are, by name.
LEMMA Names ==
    PassNames =
        {"hello-world", "inject-func-call", "print<static-cc>", "dynamic-cc",
         "print<find-fcmp-eq>", "convert-fcmp-eq", "mba-add", "mba-sub", "print<riv>",
         "duplicate-bb", "print<opcode-counter>", "merge-bb", "affine-recurrence",
         "induction-var-elim", "memssa-demo", "dead-store", "simple-licm", "default<O1>"}
BY DEF PassNames, Plugins, Plugin, HelloWorldPlugin, InjectFuncCallPlugin, StaticCallCounterPlugin,
       DynamicCallCounterPlugin, FindFCmpEqPlugin, ConvertFCmpEqPlugin, MBAAddPlugin, MBASubPlugin,
       RIVPlugin, DuplicateBBPlugin, OpcodeCounterPlugin, MergeBBPlugin, AffineRecurrencePlugin,
       DerivedInductionVarPlugin, MemorySSADemoPlugin, DeadStoreEliminationPlugin, SimpleLICMPlugin

\* What every pass declares preserved it leaves as it is or is in Unreported, and a pass that
\* reports changes nothing.
LEMMA HonestClaims ==
    ASSUME NEW p \in PassNames, NEW o \in Passes[p].outcomes
    PROVE  /\ o.preserved \subseteq Analyses
           /\ o.altered \subseteq Analyses
           /\ Passes[p].kind = "reporter" => o.altered = {}
           /\ \A a \in o.altered \cap o.preserved : <<p, a>> \in Unreported
<1>1. \/ Passes[p] \in {HelloWorld, StaticCallCounterPrinter, FindFCmpEqPrinter, RIVPrinter,
                        OpcodeCounterPrinter, AffineRecurrence, MemorySSADemoPass}
      \/ Passes[p] \in {InjectFuncCall, DynamicCallCounter, ConvertFCmpEq, MBAAdd, MBASub,
                        DuplicateBB, MergeBB, Optimise}
      \/ Passes[p] = DerivedInductionVar
      \/ p = "dead-store" /\ Passes[p] = DeadStoreElimination
      \/ p = "simple-licm" /\ Passes[p] = SimpleLICM
  BY Names, ZenonT(60) DEF Passes
<1>2. CASE Passes[p] \in {HelloWorld, StaticCallCounterPrinter, FindFCmpEqPrinter, RIVPrinter,
                          OpcodeCounterPrinter, AffineRecurrence, MemorySSADemoPass}
  <2>1. \A r \in {HelloWorld, StaticCallCounterPrinter, FindFCmpEqPrinter, RIVPrinter,
                  OpcodeCounterPrinter, AffineRecurrence, MemorySSADemoPass} :
           \E a, S : r = Reporter(a, S)
    BY DEF HelloWorld, StaticCallCounterPrinter, FindFCmpEqPrinter, RIVPrinter,
           OpcodeCounterPrinter, AffineRecurrence, MemorySSADemoPass
  <2>2. Passes[p].outcomes = {Unchanged}
    BY <1>2, <2>1 DEF Reporter
  <2> QED BY <2>2 DEF Unchanged
<1>3. CASE Passes[p] \in {InjectFuncCall, DynamicCallCounter, ConvertFCmpEq, MBAAdd, MBASub,
                          DuplicateBB, MergeBB, Optimise}
  <2>1. \A r \in {InjectFuncCall, DynamicCallCounter, ConvertFCmpEq, MBAAdd, MBASub,
                  DuplicateBB, MergeBB, Optimise} :
           \E a : \E A \in SUBSET Analyses : r = Transformer(a, Required, AllIfUnchanged(A))
    BY DEF InjectFuncCall, DynamicCallCounter, ConvertFCmpEq, MBAAdd, MBASub,
           DuplicateBB, MergeBB, Optimise, Analyses, Injected
  <2>2. /\ Passes[p].kind = "transformer"
        /\ \E A \in SUBSET Analyses : Passes[p].outcomes = AllIfUnchanged(A)
    BY <1>3, <2>1 DEF Transformer
  <2> QED BY <2>2 DEF AllIfUnchanged, Unchanged
<1>4. CASE Passes[p] = DerivedInductionVar
  BY <1>4 DEF DerivedInductionVar, Transformer, Analyses
<1>5. CASE p = "dead-store" /\ Passes[p] = DeadStoreElimination
  BY <1>5 DEF DeadStoreElimination, Transformer, Analyses, Unreported
<1>6. CASE p = "simple-licm" /\ Passes[p] = SimpleLICM
  BY <1>6 DEF SimpleLICM, Transformer, Unchanged, Analyses, Unreported
<1> QED BY <1>1, <1>2, <1>3, <1>4, <1>5, <1>6

\* The analysis each pass asks for.
LEMMA Asks ==
    /\ \A p \in {"hello-world", "inject-func-call", "dynamic-cc", "mba-add", "mba-sub",
                 "merge-bb", "default<O1>"} : p \in PassNames /\ Passes[p].asks = ""
    /\ \A p \in {"print<riv>", "duplicate-bb"} : p \in PassNames /\ Passes[p].asks = "riv"
    /\ \A p \in {"print<find-fcmp-eq>", "convert-fcmp-eq"} :
          p \in PassNames /\ Passes[p].asks = "find-fcmp-eq"
    /\ \A p \in {"affine-recurrence", "induction-var-elim", "simple-licm"} :
          p \in PassNames /\ Passes[p].asks = "scalar-evolution"
    /\ \A p \in {"memssa-demo", "dead-store"} : p \in PassNames /\ Passes[p].asks = "memory-ssa"
    /\ "print<opcode-counter>" \in PassNames /\ Passes["print<opcode-counter>"].asks = "opcode-counter"
    /\ "print<static-cc>" \in PassNames /\ Passes["print<static-cc>"].asks = "static-cc"
<1>1. /\ \A p \in {InjectFuncCall, DynamicCallCounter, MBAAdd, MBASub, MergeBB, Optimise, HelloWorld} :
            p.asks = ""
      /\ RIVPrinter.asks = "riv" /\ DuplicateBB.asks = "riv"
      /\ FindFCmpEqPrinter.asks = "find-fcmp-eq" /\ ConvertFCmpEq.asks = "find-fcmp-eq"
      /\ \A p \in {AffineRecurrence, DerivedInductionVar, SimpleLICM} : p.asks = "scalar-evolution"
      /\ MemorySSADemoPass.asks = "memory-ssa" /\ DeadStoreElimination.asks = "memory-ssa"
      /\ OpcodeCounterPrinter.asks = "opcode-counter"
      /\ StaticCallCounterPrinter.asks = "static-cc"
  BY DEF HelloWorld, StaticCallCounterPrinter, FindFCmpEqPrinter, RIVPrinter, OpcodeCounterPrinter,
         AffineRecurrence, MemorySSADemoPass, InjectFuncCall, DynamicCallCounter, ConvertFCmpEq,
         MBAAdd, MBASub, DuplicateBB, MergeBB, Optimise, DerivedInductionVar, DeadStoreElimination,
         SimpleLICM, Reporter, Transformer
<1> QED BY <1>1, Names, ZenonT(60) DEF Passes

\* The plugins there are: what a plugin's pass asks for is registered by LLVM, by the plugin
\* itself, or by one whose symbols the plugin needs; and only a pass of a module asks for an
\* analysis of modules.
LEMMA PluginTable ==
    ASSUME NEW l \in DOMAIN Plugins
    PROVE  /\ Plugins[l].pass \in PassNames
           /\ Plugins[l].level \in Levels
           /\ Plugins[l].registers \subseteq Analyses
           /\ Plugins[l].undefined \subseteq DOMAIN Plugins
           /\ \/ Passes[Plugins[l].pass].asks \in LLVMAnalyses \cup {""} \cup Plugins[l].registers
              \/ \E k \in Plugins[l].undefined : Passes[Plugins[l].pass].asks \in Plugins[k].registers
           /\ Passes[Plugins[l].pass].asks = "static-cc" => Plugins[l].level = "module"
           /\ Passes[Plugins[l].pass].asks \notin {"", "static-cc"} => Plugins[l].level # "module"
<1>1. \/ \E n \in {"hello-world", "inject-func-call", "dynamic-cc", "mba-add", "mba-sub", "merge-bb"},
            v \in {"module", "function"} : Plugins[l] = Plugin(n, v, {}, {})
      \/ \E n \in {"affine-recurrence", "induction-var-elim", "dead-store"} :
            Plugins[l] = Plugin(n, "function", {}, {})
      \/ Plugins[l] = Plugin("simple-licm", "loop", {}, {})
      \/ Plugins[l] = Plugin("memssa-demo", "function", {"memory-ssa"}, {})
      \/ Plugins[l] = Plugin("print<riv>", "function", {"riv"}, {})
      \/ Plugins[l] = Plugin("print<find-fcmp-eq>", "function", {"find-fcmp-eq"}, {})
      \/ Plugins[l] = Plugin("print<opcode-counter>", "function", {"opcode-counter"}, {})
      \/ Plugins[l] = Plugin("print<static-cc>", "module", {"static-cc"}, {})
      \/ Plugins[l] = DuplicateBBPlugin
      \/ Plugins[l] = ConvertFCmpEqPlugin
  BY DEF Plugins, HelloWorldPlugin, InjectFuncCallPlugin, StaticCallCounterPlugin,
         DynamicCallCounterPlugin, FindFCmpEqPlugin, MBAAddPlugin, MBASubPlugin,
         RIVPlugin, OpcodeCounterPlugin, MergeBBPlugin, AffineRecurrencePlugin,
         DerivedInductionVarPlugin, MemorySSADemoPlugin, DeadStoreEliminationPlugin, SimpleLICMPlugin
<1>2. CASE Plugins[l] \in {DuplicateBBPlugin, ConvertFCmpEqPlugin}
  <2>1. /\ "RIV" \in DOMAIN Plugins /\ "riv" \in Plugins["RIV"].registers
        /\ "FindFCmpEq" \in DOMAIN Plugins /\ "find-fcmp-eq" \in Plugins["FindFCmpEq"].registers
    BY DEF Plugins, RIVPlugin, FindFCmpEqPlugin, Plugin
  <2>2. /\ Plugins[l].level = "function" /\ Plugins[l].registers = {}
        /\ \/ Plugins[l].pass = "duplicate-bb" /\ Plugins[l].undefined = {"RIV"}
           \/ Plugins[l].pass = "convert-fcmp-eq" /\ Plugins[l].undefined = {"FindFCmpEq"}
    BY <1>2 DEF DuplicateBBPlugin, ConvertFCmpEqPlugin, Plugin
  <2> QED BY <2>1, <2>2, Asks, ZenonT(60) DEF Levels
<1>3. CASE Plugins[l] \notin {DuplicateBBPlugin, ConvertFCmpEqPlugin}
  <2>1. /\ Plugins[l].undefined = {}
        /\ \/ /\ Plugins[l].pass \in {"hello-world", "inject-func-call", "dynamic-cc", "mba-add",
                                      "mba-sub", "merge-bb"}
              /\ Plugins[l].level \in {"module", "function"} /\ Plugins[l].registers = {}
           \/ /\ Plugins[l].pass \in {"affine-recurrence", "induction-var-elim", "dead-store",
                                      "simple-licm"}
              /\ Plugins[l].level \in {"function", "loop"} /\ Plugins[l].registers = {}
           \/ /\ Plugins[l].pass = "memssa-demo"
              /\ Plugins[l].level = "function" /\ Plugins[l].registers = {"memory-ssa"}
           \/ /\ Plugins[l].pass = "print<riv>"
              /\ Plugins[l].level = "function" /\ Plugins[l].registers = {"riv"}
           \/ /\ Plugins[l].pass = "print<find-fcmp-eq>"
              /\ Plugins[l].level = "function" /\ Plugins[l].registers = {"find-fcmp-eq"}
           \/ /\ Plugins[l].pass = "print<opcode-counter>"
              /\ Plugins[l].level = "function" /\ Plugins[l].registers = {"opcode-counter"}
           \/ /\ Plugins[l].pass = "print<static-cc>"
              /\ Plugins[l].level = "module" /\ Plugins[l].registers = {"static-cc"}
    BY <1>1, <1>3 DEF Plugin
  <2> QED BY <2>1, Asks, ZenonT(60) DEF Levels, Analyses, LLVMAnalyses
<1> QED BY <1>2, <1>3

--------------------------------------------------------------------------------
\* The strengthening.  Before the pipeline runs there is nothing of it, and while the passes
\* of a module run no result of the module is behind.
Staged ==
    /\ status \in {"loading", "parsing"} => groups = <<>> /\ cached = {} /\ all
    /\ InGroup /\ Group.level = "module" => all

\* What the loaded plugins leave undefined is loaded.
Linked == \A i \in DOMAIN loaded : \A k \in Plugins[loaded[i]].undefined : IsLoaded(k)

\* What the loaded plugins register is known when the pipeline is parsed.
Registered ==
    status = "parsing" =>
        registered = LLVMAnalyses \cup UNION {Plugins[loaded[i]].registers : i \in DOMAIN loaded}

\* What the passes of the pipeline ask for is known, and is of the kind of unit they run on.
Suits(p, level) ==
    /\ p \in PassNames
    /\ Passes[p].asks \in registered \cup {""}
    /\ Passes[p].asks = "static-cc" => level = "module"
    /\ Passes[p].asks \notin {"", "static-cc"} => level # "module"
Provided ==
    \A i \in DOMAIN groups : \A n \in DOMAIN groups[i].passes :
        Suits(groups[i].passes[n], groups[i].level)

IInv == TypeOK /\ Staged /\ Linked /\ Registered /\ Provided

\* A pass that a loaded plugin adds to a pipeline of some level suits that level.
LEMMA ParsedSuits ==
    ASSUME TypeOK, Linked, Registered, status = "parsing",
           NEW p, NEW level, Parses(p, level)
    PROVE  Suits(p, level) /\ level \in Levels
<1>1. PICK i \in DOMAIN loaded : Plugins[loaded[i]].pass = p /\ Plugins[loaded[i]].level = level
  BY DEF Parses
<1>2. loaded[i] \in DOMAIN Plugins
  BY DEF TypeOK
<1>3. /\ Plugins[loaded[i]].registers \subseteq registered
      /\ LLVMAnalyses \subseteq registered
      /\ \A k \in Plugins[loaded[i]].undefined : Plugins[k].registers \subseteq registered
  BY DEF Registered, Linked, IsLoaded
<1> QED BY <1>1, <1>2, <1>3, PluginTable DEF Suits

\* Where a pass is about to run, it is one there is, it suits the unit, and the unit is the
\* module or a function of it.
LEMMA AtHand ==
    ASSUME TypeOK, Provided, AtPass
    PROVE  /\ Name \in PassNames
           /\ Suits(Name, Group.level)
           /\ Unit = Module <=> Group.level = "module"
           /\ Unit # Module => Unit \in Fns
<1>1. at.group \in DOMAIN groups /\ at.pass \in DOMAIN groups[at.group].passes
  BY DEF TypeOK, AtPass, InGroup, Group
<1>2. Suits(Name, Group.level) /\ Name \in PassNames
  BY <1>1 DEF Provided, Name, Group, Suits
<1>3. CASE Group.level = "module"
  BY <1>2, <1>3 DEF Unit
<1>4. CASE Group.level # "module"
  <2>1. at.fn \in DOMAIN defined
    BY <1>4 DEF TypeOK, AtPass
  <2>2. Unit = defined[at.fn] /\ Unit \in Fns /\ Unit \in Functions
    BY <1>4, <2>1 DEF Unit, Fns, TypeOK
  <2> QED BY <1>2, <1>4, <2>2, ModulesAssumption
<1> QED BY <1>3, <1>4

\* What a pass is given shows changes that have been made.
LEMMA ResultMade ==
    ASSUME TypeOK PROVE Result \subseteq ir
<1>1. CASE Found # {}
  BY <1>1 DEF Result, Found, TypeOK
<1>2. CASE Found = {}
  BY <1>2 DEF Result, Says, Manager!Says
<1> QED BY <1>1, <1>2

LEMMA InitIInv == Init => IInv
<1> SUFFICES ASSUME Init PROVE IInv
  OBVIOUS
<1>1. cmd \in CommandLine /\ defined \in Seq(Functions)
  BY CommandLinesAssumption, ModulesAssumption DEF Init
<1>2. TypeOK
  BY <1>1 DEF Init, TypeOK, Start
<1>3. Staged /\ Linked /\ Registered /\ Provided
  BY DEF Init, Staged, Linked, Registered, Provided, InGroup, Start
<1> QED BY <1>2, <1>3 DEF IInv

LEMMA RunPassIInv ==
    ASSUME IInv, RunPass PROVE IInv'
<1> USE DEF IInv
<1>1. AtPass /\ status = "running"
  BY DEF RunPass, AtPass, InGroup
<1>2. PICK o \in Pass.outcomes :
          /\ ir' = ir \cup Changes(o)
          /\ defined' = IF Added(o) = {} THEN defined ELSE Append(defined, Wrapper)
          /\ cached' = Valid(o)
          /\ all' = (all /\ (Unit = Module \/ o.preserved = Analyses))
  BY DEF RunPass
<1>3. /\ UNCHANGED <<cmd, status, loaded, registered, groups>>
      /\ at' = [at EXCEPT !.pass = @ + 1]
  BY DEF RunPass
<1>4. /\ at' \in [group : Nat \ {0}, fn : Nat \ {0}, pass : Nat \ {0}]
      /\ at'.group = at.group
  BY <1>3, SMTT(30) DEF TypeOK
<1>5. defined' \in Seq(Functions) /\ Fns \subseteq Fns'
  <2>1. CASE Added(o) = {}
    BY <1>2, <2>1 DEF TypeOK, Fns
  <2>2. CASE Added(o) # {}
    <3>1. defined' = Append(defined, Wrapper) /\ defined \in Seq(Functions)
      BY <1>2, <2>2 DEF TypeOK
    <3>2. /\ defined' \in Seq(Functions)
          /\ \A i \in DOMAIN defined : i \in DOMAIN defined' /\ defined'[i] = defined[i]
      BY <3>1, ModulesAssumption
    <3> QED BY <3>2 DEF Fns
  <2> QED BY <2>1, <2>2
<1>6. \A c \in cached \cup Obtained :
          /\ c.analysis \in registered
          /\ IF c.analysis = "static-cc" THEN c.unit = Module ELSE c.unit \in Fns
          /\ c.shown \subseteq ir
  <2>1. \A c \in Obtained :
            /\ c.analysis = Pass.asks /\ c.analysis # "" /\ c.unit = Unit /\ c.shown = Result
    <3> SUFFICES ASSUME NEW c \in Obtained
                 PROVE  c.analysis = Pass.asks /\ c.analysis # "" /\ c.unit = Unit /\ c.shown = Result
      OBVIOUS
    <3>1. Pass.asks # "" /\ c = [unit |-> Unit, analysis |-> Pass.asks, shown |-> Result]
      BY Zenon DEF Obtained
    <3> QED BY <3>1
  <2>2. Suits(Name, Group.level)
    BY <1>1, AtHand
  <2> QED BY <2>1, <2>2, <1>1, AtHand, ResultMade DEF Suits, Pass, TypeOK
<1>7. TypeOK'
  <2>1. all' \in BOOLEAN
    BY <1>2 DEF TypeOK
  <2>2. \A c \in cached' : /\ c.analysis \in registered'
                           /\ IF c.analysis = "static-cc" THEN c.unit = Module ELSE c.unit \in Fns'
                           /\ c.shown \subseteq ir'
    BY <1>2, <1>3, <1>5, <1>6 DEF Valid
  <2> QED BY <1>3, <1>4, <1>5, <2>1, <2>2 DEF TypeOK
<1>8. Staged'
  <2>1. Group' = Group /\ InGroup
    BY <1>1, <1>3, <1>4 DEF Group, AtPass
  <2>2. Group.level = "module" => Unit = Module
    BY <1>1, AtHand
  <2>3. Group.level = "module" => all'
    BY <1>2, <2>1, <2>2 DEF Staged
  <2> QED BY <1>1, <1>3, <2>1, <2>3 DEF Staged
<1>9. Linked' /\ Registered' /\ Provided'
  BY <1>3, ZenonT(60) DEF Linked, IsLoaded, Registered, Provided, Suits
<1> QED BY <1>7, <1>8, <1>9

\* The pipeline that OpcodeCounter's extension point makes.
LEMMA Triple ==
    ASSUME NEW s \in {<<>>, <<"print<opcode-counter>">>},
           s # <<>> => Suits("print<opcode-counter>", "function"),
           UNCHANGED registered,
           groups' = <<[level |-> "module", passes |-> <<"default<O1>">>],
                       [level |-> "function", passes |-> s],
                       [level |-> "module", passes |-> <<"default<O1>">>]>>
    PROVE  groups' \in Seq([level : Levels, passes : Seq(PassNames)]) /\ Provided'
<1>1. Suits("default<O1>", "module")
  BY Asks DEF Suits
<1> DEFINE m == [level |-> "module", passes |-> <<"default<O1>">>]
           f == [level |-> "function", passes |-> s]
           T == [level : Levels, passes : Seq(PassNames)]
<1>2. s \in Seq(PassNames) /\ \A n \in DOMAIN s : s[n] = "print<opcode-counter>" /\ s # <<>>
  <2>1. <<>> \in Seq(PassNames) /\ DOMAIN <<>> = {}
    OBVIOUS
  <2>2. CASE s = <<"print<opcode-counter>">>
    <3>1. "print<opcode-counter>" \in PassNames
      BY Asks
    <3> QED BY <2>2, <3>1
  <2> QED BY <2>1, <2>2
<1>3. m \in T /\ f \in T
  <2>1. "default<O1>" \in PassNames
    BY Asks
  <2>2. <<"default<O1>">> \in Seq(PassNames)
    BY <2>1
  <2> QED BY <1>2, <2>2 DEF Levels
<1>4. \A i \in DOMAIN groups' : groups'[i] = m \/ groups'[i] = f
  <2> HIDE DEF m, f
  <2> QED BY DEF m, f
<1>5. groups' \in Seq(T)
  <2>1. groups' = <<m, f, m>>
    OBVIOUS
  <2> HIDE DEF m, f, T
  <2> QED BY <1>3, <2>1
<1>6. Provided'
  <2> SUFFICES ASSUME NEW i \in DOMAIN groups', NEW n \in DOMAIN groups'[i].passes
               PROVE  Suits(groups[i].passes[n], groups[i].level)'
    BY DEF Provided
  <2>1. CASE groups'[i] = m
    <3>1. groups'[i].passes[n] = "default<O1>" /\ groups'[i].level = "module"
      BY <2>1
    <3> QED BY <1>1, <3>1 DEF Suits
  <2>2. CASE groups'[i] = f
    <3>1. groups'[i].passes[n] = "print<opcode-counter>" /\ groups'[i].level = "function" /\ s # <<>>
      BY <1>2, <2>2
    <3> QED BY <3>1 DEF Suits
  <2> QED BY <1>4, <2>1, <2>2
<1> QED BY <1>5, <1>6

LEMMA ParseIInv ==
    ASSUME IInv, ParsePipeline PROVE IInv'
<1> USE DEF IInv
<1>1. /\ status = "parsing" /\ status' = "running"
      /\ UNCHANGED <<cmd, loaded, registered, at, defined, ir, cached, all, out>>
      /\ all
  BY DEF ParsePipeline, Staged
<1>2. groups' \in Seq([level : Levels, passes : Seq(PassNames)]) /\ Provided'
  <2>1. CASE IsOptimisation
    <3>1. groups' = OptimisationPipeline
      BY <2>1 DEF ParsePipeline
    <3>2. CASE IsLoaded("OpcodeCounter")
      <4>1. PICK i \in DOMAIN loaded : loaded[i] = "OpcodeCounter"
        BY <3>2 DEF IsLoaded
      <4>2. /\ Plugins["OpcodeCounter"].pass = "print<opcode-counter>"
            /\ Plugins["OpcodeCounter"].level = "function"
        BY DEF Plugins, OpcodeCounterPlugin, Plugin
      <4>3. Suits("print<opcode-counter>", "function")
        BY <1>1, <4>1, <4>2, ParsedSuits DEF Parses
      <4>4. groups' = <<[level |-> "module", passes |-> <<"default<O1>">>],
                        [level |-> "function", passes |-> <<"print<opcode-counter>">>],
                        [level |-> "module", passes |-> <<"default<O1>">>]>>
        BY <3>1, <3>2 DEF OptimisationPipeline
      <4> QED BY <1>1, <4>3, <4>4, Triple
    <3>3. CASE ~ IsLoaded("OpcodeCounter")
      <4>1. groups' = <<[level |-> "module", passes |-> <<"default<O1>">>],
                        [level |-> "function", passes |-> <<>>],
                        [level |-> "module", passes |-> <<"default<O1>">>]>>
        BY <3>1, <3>3 DEF OptimisationPipeline
      <4> QED BY <1>1, <4>1, Triple
    <3> QED BY <3>2, <3>3
  <2>2. CASE ~ IsOptimisation
    <3>1. /\ Known
          /\ groups' = [i \in DOMAIN cmd.text |-> [level |-> LevelOf(i), passes |-> cmd.text[i].names]]
      BY <2>2 DEF ParsePipeline
    <3>2. cmd.text \in Seq(Text)
      BY DEF TypeOK, CommandLine
    <3>3. \A i \in DOMAIN cmd.text : \A n \in DOMAIN cmd.text[i].names :
              Suits(cmd.text[i].names[n], LevelOf(i))
      BY <1>1, <3>1, ParsedSuits DEF Known
    <3>4. \A i \in DOMAIN cmd.text : LevelOf(i) \in Levels
      <4>0. \A i \in DOMAIN cmd.text : cmd.text[i] \in Text
        BY <3>2
      <4>1. \A i \in DOMAIN cmd.text : cmd.text[i].in \in {"", "function", "loop"}
        BY <4>0 DEF Text
      <4> QED BY <4>1 DEF LevelOf, Levels
    <3>5. \A i \in DOMAIN cmd.text : cmd.text[i].names \in Seq(PassNames)
      <4> SUFFICES ASSUME NEW i \in DOMAIN cmd.text PROVE cmd.text[i].names \in Seq(PassNames)
        OBVIOUS
      <4> DEFINE s == cmd.text[i].names
      <4>1. \A n \in DOMAIN s : s[n] \in PassNames
        BY <3>3 DEF Suits
      <4>0. cmd.text[i] \in Text
        BY <3>2
      <4>2. s \in Seq(STRING)
        BY <4>0 DEF Text
      <4> HIDE DEF s
      <4>3. s \in Seq(PassNames)
        BY <4>1, <4>2
      <4> QED BY <4>3 DEF s
    <3>6. /\ DOMAIN groups' = DOMAIN cmd.text
          /\ \A i \in DOMAIN groups' : /\ groups'[i] \in [level : Levels, passes : Seq(PassNames)]
                                       /\ groups'[i].level = LevelOf(i)
                                       /\ groups'[i].passes = cmd.text[i].names
      BY <3>1, <3>4, <3>5
    <3>7. groups' \in Seq([level : Levels, passes : Seq(PassNames)])
      <4>1. DOMAIN cmd.text = 1..Len(cmd.text) /\ Len(cmd.text) \in Nat
        BY <3>2, LenProperties
      <4>2. groups' \in [1..Len(cmd.text) -> [level : Levels, passes : Seq(PassNames)]]
        BY <3>1, <3>4, <3>5, <4>1
      <4> DEFINE T == [level : Levels, passes : Seq(PassNames)]
                 n == Len(cmd.text)
      <4> HIDE DEF T, n
      <4>3. groups' \in [1..n -> T] /\ n \in Nat
        BY <4>1, <4>2 DEF T, n
      <4>4. groups' \in Seq(T)
        BY <4>3, SeqDef
      <4> QED BY <4>4 DEF T
    <3>8. Provided'
      <4> SUFFICES ASSUME NEW i \in DOMAIN groups', NEW n \in DOMAIN groups'[i].passes
                   PROVE  Suits(groups[i].passes[n], groups[i].level)'
        BY DEF Provided
      <4>1. groups'[i].level = LevelOf(i) /\ groups'[i].passes = cmd.text[i].names
        BY <3>6
      <4>2. i \in DOMAIN cmd.text /\ n \in DOMAIN cmd.text[i].names
        BY <3>6, <4>1
      <4>3. Suits(cmd.text[i].names[n], LevelOf(i))
        BY <3>3, <4>2
      <4> DEFINE p == cmd.text[i].names[n]
                 v == LevelOf(i)
      <4>4. groups'[i].passes[n] = p /\ groups'[i].level = v
        BY <4>1
      <4>5. Suits(p, v)
        BY <4>3
      <4> HIDE DEF p, v
      <4>6. registered' = registered
        BY <1>1
      <4> QED BY <4>4, <4>5, <4>6 DEF Suits
    <3> QED BY <3>7, <3>8
  <2> QED BY <2>1, <2>2
<1>3. TypeOK'
  BY <1>1, <1>2 DEF TypeOK, Fns
<1>4. Staged' /\ Linked' /\ Registered'
  BY <1>1 DEF Staged, Linked, IsLoaded, Registered
<1> QED BY <1>2, <1>3, <1>4

\* Every step keeps the strengthening.
LEMMA StepIInv == IInv /\ [Next]_vars => IInv'
<1> SUFFICES ASSUME IInv, [Next]_vars PROVE IInv'
  OBVIOUS
<1> USE DEF IInv
<1>1. CASE LoadPlugin
  <2> USE <1>1 DEF LoadPlugin
  <2>1. /\ status = "loading" /\ loaded' = Append(loaded, NextPlugin) /\ loaded \in Seq(DOMAIN Plugins)
        /\ \A l \in Plugins[NextPlugin].undefined : IsLoaded(l)
        /\ UNCHANGED <<cmd, status, registered, groups, at, defined, ir, cached, all, out>>
    BY DEF TypeOK
  <2>2. NextPlugin \in DOMAIN Plugins
    <3>1. cmd.plugins \in Seq(DOMAIN Plugins)
      BY DEF TypeOK, CommandLine
    <3>2. Len(loaded) + 1 \in DOMAIN cmd.plugins
      BY <2>1, <3>1
    <3> QED BY <3>1, <3>2 DEF NextPlugin
  <2>3. /\ loaded' \in Seq(DOMAIN Plugins)
        /\ \A i \in DOMAIN loaded : i \in DOMAIN loaded' /\ loaded'[i] = loaded[i]
        /\ \A i \in DOMAIN loaded' : i \in DOMAIN loaded \/ loaded'[i] = NextPlugin
    BY <2>1, <2>2
  <2>4. TypeOK' /\ Staged' /\ Registered' /\ Provided'
    BY <2>1, <2>3 DEF TypeOK, Staged, Registered, Provided, Suits, Fns, InGroup, Group
  <2>5. Linked'
    <3>1. \A l : IsLoaded(l) => IsLoaded(l)'
      BY <2>3 DEF IsLoaded
    <3>2. \A i \in DOMAIN loaded' : \A k \in Plugins[loaded'[i]].undefined : IsLoaded(k)
      BY <2>1, <2>3 DEF Linked
    <3> QED BY <3>1, <3>2 DEF Linked
  <2> QED BY <2>4, <2>5
<1>2. CASE RegisterAnalyses
  <2> USE <1>2 DEF RegisterAnalyses
  <2>1. /\ status = "loading" /\ status' = "parsing"
        /\ registered' = LLVMAnalyses \cup UNION {Plugins[loaded[i]].registers : i \in DOMAIN loaded}
        /\ UNCHANGED <<cmd, loaded, groups, at, defined, ir, cached, all, out>>
        /\ groups = <<>> /\ cached = {} /\ all
    BY DEF Staged
  <2>2. registered' \subseteq Analyses
    <3>1. \A i \in DOMAIN loaded : Plugins[loaded[i]].registers \subseteq Analyses
      <4>1. \A i \in DOMAIN loaded : loaded[i] \in DOMAIN Plugins
        BY DEF TypeOK
      <4> QED BY <4>1, PluginTable
    <3> QED BY <2>1, <3>1 DEF LLVMAnalyses, Analyses
  <2>3. TypeOK'
    BY <2>1, <2>2 DEF TypeOK, Fns
  <2>4. Staged' /\ Registered' /\ Linked' /\ Provided'
    BY <2>1 DEF Staged, Registered, Linked, IsLoaded, Provided, InGroup
  <2> QED BY <2>3, <2>4
<1>3. CASE ParsePipeline
  BY <1>3, ParseIInv
<1>4. CASE CountStaticCalls
  <2>1. /\ status = "loading" /\ status' = "running" /\ registered' = {"static-cc"}
        /\ groups' = <<[level |-> "module", passes |-> <<"print<static-cc>">>]>>
        /\ UNCHANGED <<cmd, loaded, at, defined, ir, cached, all, out>>
        /\ groups = <<>> /\ cached = {} /\ all
    BY <1>4 DEF CountStaticCalls, Staged
  <2>2. Suits("print<static-cc>", "module")'
    BY <2>1, Asks DEF Suits
  <2>3. groups' \in Seq([level : Levels, passes : Seq(PassNames)])
    <3>1. "print<static-cc>" \in PassNames
      BY Asks
    <3>2. <<"print<static-cc>">> \in Seq(PassNames)
      BY <3>1
    <3> QED BY <2>1, <3>2 DEF Levels
  <2>4. TypeOK'
    BY <2>1, <2>3 DEF TypeOK, Fns, Analyses
  <2>5. Provided'
    <3>1. \A i \in DOMAIN groups' : /\ groups'[i].level = "module"
                                    /\ groups'[i].passes = <<"print<static-cc>">>
      BY <2>1
    <3> SUFFICES ASSUME NEW i \in DOMAIN groups', NEW n \in DOMAIN groups'[i].passes
                 PROVE  Suits(groups[i].passes[n], groups[i].level)'
      BY DEF Provided
    <3>2. groups'[i].passes[n] = "print<static-cc>" /\ groups'[i].level = "module"
      BY <3>1
    <3> QED BY <2>2, <3>2 DEF Suits
  <2>6. Staged' /\ Linked' /\ Registered'
    BY <2>1 DEF Staged, Linked, IsLoaded, Registered
  <2> QED BY <2>4, <2>5, <2>6
<1>5. CASE RunPass
  BY <1>5, RunPassIInv
<1>6. CASE SkipPass \/ NextFunction
  <2>1. /\ UNCHANGED <<cmd, status, loaded, registered, groups, defined, ir, cached, all, out>>
        /\ status = "running"
        /\ at' \in [group : Nat \ {0}, fn : Nat \ {0}, pass : Nat \ {0}]
        /\ at'.group = at.group
    BY <1>6 DEF SkipPass, NextFunction, AtPass, InGroup, TypeOK
  <2>2. TypeOK' /\ Staged'
    BY <2>1 DEF TypeOK, Fns, Staged, InGroup, Group
  <2>3. Linked' /\ Registered' /\ Provided'
    BY <2>1, ZenonT(60) DEF Linked, IsLoaded, Registered, Provided, Suits
  <2> QED BY <2>2, <2>3
<1>7. CASE NextGroup
  <2>1. /\ UNCHANGED <<cmd, status, loaded, registered, groups, defined, ir, out>>
        /\ status = "running"
        /\ cached' \subseteq cached /\ all' = TRUE
        /\ at' \in [group : Nat \ {0}, fn : Nat \ {0}, pass : Nat \ {0}]
    BY <1>7 DEF NextGroup, InGroup, TypeOK
  <2>2. TypeOK' /\ Staged'
    BY <2>1 DEF TypeOK, Fns, Staged
  <2>3. Linked' /\ Registered' /\ Provided'
    BY <2>1, ZenonT(60) DEF Linked, IsLoaded, Registered, Provided, Suits
  <2> QED BY <2>2, <2>3
<1>8. CASE UndefinedSymbol \/ UnknownPass \/ ErrorReadingFile \/ Finish
  <2>1. /\ UNCHANGED <<cmd, loaded, registered, groups, at, defined, ir, cached, all, out>>
        /\ status' \in {"refused", "done"}
    BY <1>8 DEF UndefinedSymbol, UnknownPass, ErrorReadingFile, Finish
  <2>2. TypeOK' /\ Staged'
    BY <2>1 DEF TypeOK, Fns, Staged, InGroup
  <2>3. Linked' /\ Registered' /\ Provided'
    BY <2>1 DEF Linked, IsLoaded, Registered, Provided, Suits
  <2> QED BY <2>2, <2>3
<1>9. CASE UNCHANGED vars
  <2>1. TypeOK' /\ Staged'
    BY <1>9 DEF vars, TypeOK, Fns, Staged, InGroup, Group
  <2>2. Linked' /\ Registered' /\ Provided'
    BY <1>9, ZenonT(60) DEF vars, Linked, IsLoaded, Registered, Provided, Suits
  <2> QED BY <2>1, <2>2
<1> QED BY <1>1, <1>2, <1>3, <1>4, <1>5, <1>6, <1>7, <1>8, <1>9 DEF Next, Stopped

LEMMA AlwaysIInv == Spec => []IInv
<1> QED BY InitIInv, StepIInv, PTL DEF Spec

--------------------------------------------------------------------------------
\* The state is well-typed: a result that is cached for a function is one of a function that
\* the module defines, and those of the module are of an analysis of modules.
THEOREM TypeCorrect == Spec => []TypeOK
<1>1. IInv => TypeOK
  BY DEF IInv
<1> QED BY <1>1, AlwaysIInv, PTL

\* Whatever plugins are loaded in whatever order, and whatever the pipeline: a pass that runs
\* finds the analysis that it asks for registered.
THEOREM AllRegistered == Spec => []AnalysesKnown
<1>1. IInv => AnalysesKnown
  BY AtHand DEF IInv, AnalysesKnown, Suits, Pass
<1> QED BY <1>1, AlwaysIInv, PTL

--------------------------------------------------------------------------------
\* What a pass is given, from the cache or anew, is what the analysis says of the program.
LEMMA ResultFresh ==
    ASSUME IInv, CacheFresh, AtPass
    PROVE  ToShow(Result, Pass.asks) = ToShow(Says(Pass.asks, Unit), Pass.asks)
<1>1. CASE Found = {}
  BY <1>1 DEF Result
<1>2. CASE Found # {}
  <2>1. PICK c \in Found : Result = c.shown
    BY <1>2 DEF Result
  <2>2. c \in cached /\ c.unit = Unit /\ c.analysis = Pass.asks
    BY DEF Found
  <2>3. Unit = Module => all
    BY AtHand DEF IInv, Staged, AtPass
  <2> QED BY <2>1, <2>2, <2>3 DEF CacheFresh
<1> QED BY <1>1, <1>2

\* Passes leave no result in the caches that their changes have made false, but for those of
\* Unreported.
LEMMA RunPassFresh ==
    ASSUME IInv, CacheFresh, RunPass PROVE CacheFresh'
<1>1. AtPass /\ Name \in PassNames
  BY AtHand DEF RunPass, IInv
<1>2. PICK o \in Pass.outcomes :
          /\ ir' = ir \cup Changes(o)
          /\ cached' = Valid(o)
          /\ all' = (all /\ (Unit = Module \/ o.preserved = Analyses))
  BY DEF RunPass
<1> SUFFICES ASSUME NEW c \in Valid(o), c.unit = Module => all'
             PROVE  ToShow(c.shown, c.analysis) = ToShow(Says(c.analysis, c.unit)', c.analysis)
  BY <1>2 DEF CacheFresh, ToShow, Manager!ToShow
<1>3. ToShow(c.shown, c.analysis) = ToShow(Says(c.analysis, c.unit), c.analysis)
  <2>1. CASE c \in cached
    BY <1>2, <2>1 DEF CacheFresh
  <2>2. CASE c \in Obtained
    <3>1. c.analysis = Pass.asks /\ c.unit = Unit /\ c.shown = Result
      <4>1. c = [unit |-> Unit, analysis |-> Pass.asks, shown |-> Result]
        BY <2>2, Zenon DEF Obtained
      <4> QED BY <4>1
    <3> QED BY <1>1, <3>1, ResultFresh
  <2> QED BY <2>1, <2>2 DEF Valid
<1>4. ASSUME NEW d \in Changes(o), c.analysis \in d.altered, c.unit \in {d.fn, Module}
      PROVE  <<d.pass, c.analysis>> \in Unreported
  <2>1. /\ d.pass = Name /\ d.altered = o.altered
        /\ Unit # Module => d.fn = Unit
    <3>1. d \in [pass : {Name}, at : {at}, altered : {o.altered},
                 fn : IF Unit = Module THEN Fns \cup Added(o) ELSE {Unit}]
      BY DEF Changes
    <3> QED BY <3>1
  <2>2. /\ o.preserved \subseteq Analyses /\ o.altered \subseteq Analyses
        /\ c.analysis \in o.preserved => <<d.pass, c.analysis>> \in Unreported
    BY <1>1, <1>4, <2>1, HonestClaims DEF Pass
  <2>3. o.preserved = Analyses => c.analysis \in o.preserved
    BY <1>4, <2>1, <2>2
  <2>4. CASE Unit = Module
    BY <2>2, <2>3, <2>4 DEF Valid
  <2>5. CASE Unit # Module
    <3>1. c.unit = Unit \/ c.unit = Module
      BY <1>4, <2>1, <2>5
    <3>2. c.unit = Module => o.preserved = Analyses
      BY <1>2, <2>5
    <3> QED BY <2>2, <2>3, <2>5, <3>1, <3>2 DEF Valid
  <2> QED BY <2>4, <2>5
<1>5. ToShow(Says(c.analysis, c.unit)', c.analysis) = ToShow(Says(c.analysis, c.unit), c.analysis)
  BY <1>2, <1>4 DEF ToShow, Manager!ToShow, Says, Manager!Says
<1> QED BY <1>3, <1>5

\* Every step but that of a pass leaves the program alone, and what it leaves in the caches.
LEMMA StepFresh == IInv /\ CacheFresh /\ [Next]_vars => CacheFresh'
<1> SUFFICES ASSUME IInv, CacheFresh, [Next]_vars PROVE CacheFresh'
  OBVIOUS
<1>1. CASE RunPass
  BY <1>1, RunPassFresh
<1>2. CASE ~ RunPass
  <2>1. /\ ir' = ir /\ cached' \subseteq cached
        /\ \A c \in cached' : (c.unit = Module => all') => (c.unit = Module => all)
    <3>1. CASE NextGroup
      <4>1. ir' = ir /\ cached' = IF all THEN cached ELSE {c \in cached : c.unit # Module}
        BY <3>1 DEF NextGroup
      <4> QED BY <4>1
    <3>2. CASE ~ NextGroup
      <4>1. UNCHANGED <<ir, cached, all>>
        BY <1>2, <3>2 DEF Next, LoadPlugin, UndefinedSymbol, RegisterAnalyses, ParsePipeline,
                          UnknownPass, CountStaticCalls, ErrorReadingFile, SkipPass,
                          NextFunction, Finish, Stopped, vars
      <4> QED BY <4>1
    <3> QED BY <3>1, <3>2
  <2>2. \A a, u : Says(a, u)' = Says(a, u)
    BY <2>1 DEF Says, Manager!Says
  <2> QED BY <2>1, <2>2 DEF CacheFresh, ToShow, Manager!ToShow
<1> QED BY <1>1, <1>2

\* For every pipeline over every module: a result that a pass may be given from the caches is
\* what the analysis would say of the program as it is then, but for the unreported changes.
THEOREM CachesFresh == Spec => []CacheFresh
<1>1. Init => CacheFresh
  BY DEF Init, CacheFresh
<1> QED BY <1>1, AlwaysIInv, StepFresh, PTL DEF Spec

\* The pipeline implements PassManager: its reports are those of a manager without caches.
THEOREM Refinement == Spec => ReportsAnew
<1>1. Init => Manager!Init
  BY DEF Init, Manager!Init
<1>2. IInv /\ CacheFresh /\ [Next]_vars => [Manager!Next]_Manager!vars
  <2> SUFFICES ASSUME IInv, CacheFresh, [Next]_vars, ~ UNCHANGED <<ir, out>>
               PROVE  Manager!Next
    BY DEF Manager!vars
  <2>1. RunPass
    BY DEF Next, LoadPlugin, UndefinedSymbol, RegisterAnalyses, ParsePipeline, UnknownPass,
           CountStaticCalls, ErrorReadingFile, SkipPass, NextFunction, NextGroup,
           Finish, Stopped, vars
  <2>2. AtPass /\ Name \in PassNames
    BY <2>1, AtHand DEF RunPass, IInv
  <2>3. PICK o \in Pass.outcomes : ir' = ir \cup Changes(o)
    BY <2>1 DEF RunPass
  <2>4. CASE out' = out
    BY <2>3, <2>4 DEF Manager!Next, Manager!Change
  <2>5. CASE out' # out
    <3>1. Pass.kind = "reporter" /\ out' = out \cup {Report}
      BY <2>1, <2>5 DEF RunPass
    <3>2. ir' = ir
      BY <2>2, <2>3, <3>1, HonestClaims DEF Pass, Changes
    <3>3. ToShow(Report.shown, Report.analysis) = ToShow(Says(Report.analysis, Report.unit), Report.analysis)
      <4>1. Report.shown = Result /\ Report.analysis = Pass.asks /\ Report.unit = Unit
        BY DEF Report
      <4> QED BY <2>2, <4>1, ResultFresh
    <3> QED BY <3>1, <3>2, <3>3 DEF Manager!Next, Manager!Report, ToShow, Says
  <2> QED BY <2>4, <2>5
<1> QED BY <1>1, <1>2, AlwaysIInv, CachesFresh, PTL DEF Spec, ReportsAnew, Manager!Spec
================================================================================
