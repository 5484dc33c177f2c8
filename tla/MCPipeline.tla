------------------------------- MODULE MCPipeline --------------------------------
(***************************************************************************)
(* Instances of Pipeline: two transforming passes between two runs of a    *)
(* reporting one, the pipeline written bare and with its adaptors; plugins *)
(* missing and in every order; an optimisation pipeline; the tool static.  *)
(***************************************************************************)
EXTENDS Pipeline, SequencesExt

MCFunctions == {"f", "g", "printf_wrapper"}
MCModules == {<<>>, <<"f", "g">>}
MCOptNone == {"g"}

Providing(p) == CHOOSE l \in DOMAIN Plugins : Plugins[l].pass = p

\* The plugins that the passes p need, those whose symbols others use first.
PluginsFor(p) ==
    LET Named == {Providing(p[i]) : i \in DOMAIN p}
        Needed == UNION {Plugins[l].undefined : l \in Named}
    IN  SetToSeq(Needed) \o SetToSeq(Named \ Needed)

Bare(p) == <<[in |-> "", names |-> p]>>
In(name) ==
    LET level == Plugins[Providing(name)].level IN IF level = "module" THEN "" ELSE level
Nested(p) == [i \in DOMAIN p |-> [in |-> In(p[i]), names |-> <<p[i]>>]]

Names == {Plugins[l].pass : l \in DOMAIN Plugins}
Reporting == {n \in Names : Passes[n].kind = "reporter"}
Transforming == Names \ Reporting
Texts ==
    {<<r, t, s, r>> : r \in Reporting, t \in Transforming, s \in Transforming}

\* A reporting pass and one it has to do with, in pipelines for which plugins may be missing.
Pairs == {<<"print<riv>", "duplicate-bb">>, <<"convert-fcmp-eq", "print<find-fcmp-eq>">>,
          <<"convert-fcmp-eq", "duplicate-bb">>, <<"simple-licm", "simple-licm">>}
Loads(p) ==
    LET Some == {Providing(p[i]) : i \in DOMAIN p}
    IN  UNION {SetToSeqs(s) : s \in SUBSET (Some \cup UNION {Plugins[l].undefined : l \in Some})}

MCCommandLines ==
    {[tool |-> "opt", plugins |-> PluginsFor(p), text |-> text] :
        <<p, text>> \in {<<p, Nested(p)>> : p \in Texts} \cup {<<p, Bare(p)>> : p \in Texts}}
    \cup UNION {{[tool |-> "opt", plugins |-> s, text |-> Bare(p)] : s \in Loads(p)} : p \in Pairs}
    \cup {[tool |-> "opt", plugins |-> s, text |-> Bare(<<"default<O1>">>)] :
            s \in {<<>>, <<"OpcodeCounter">>}}
    \cup {[tool |-> "static", plugins |-> <<>>, text |-> <<>>]}
================================================================================
