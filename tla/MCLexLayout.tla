---------------------------- MODULE MCLexLayout -----------------------------
(* The sources and configurations on which TLC checks LexLayout: a source  *)
(* is a few lines drawn from a set of line shapes, with or without a final *)
(* newline.                                                                *)
EXTENDS LexLayoutRef, SequencesExt

Config(offside, equalCloses, unit, autoSemi, emitNewlines, keepComments) ==
  [offside |-> offside, equalCloses |-> equalCloses, unit |-> unit,
   autoSemi |-> autoSemi, emitNewlines |-> emitNewlines, keepComments |-> keepComments,
   mayFail |-> FALSE]

\* Sources of exactly n lines of these shapes, with and without a last newline.
LinesOf(n, shapes) ==
  {FlattenSeq([i \in 1..n |-> IF i < n \/ ended THEN Append(ls[i], "nl") ELSE ls[i]]) :
     ls \in [1..n -> shapes], ended \in BOOLEAN}

\* Layout: indentations of 0 to 3 columns, tabs, comments, bad and blank lines.
IndentShapes ==
  { <<>>, <<"name">>, <<"sp", "name">>, <<"sp", "sp", "op">>, <<"tab", "name">>,
    <<"sp", "tab", "name">>, <<"tab", "sp", "name">>, <<"sp", "lc", "name">>,
    <<"sp", "bad", "name">>, <<"sp", "ff", "name">> }
LayoutSources == LinesOf(4, IndentShapes)
LayoutConfigs ==
  { Config(TRUE, eq, "both", FALSE, FALSE, FALSE) : eq \in BOOLEAN }

\* Line ends: what closes a line with and without code, comments, templates.
EndShapes ==
  { <<>>, <<"name">>, <<"name", "op">>, <<"name", "lc", "name">>, <<"name", "bad">>,
    <<"bc">>, <<"tpl">>, <<"sp", "op", "tpl">>, <<"bad", "ff", "name">> }
LineSources == LinesOf(3, EndShapes)
LineConfigs ==
  { Config(FALSE, FALSE, "both", TRUE, FALSE, FALSE),
    Config(FALSE, FALSE, "both", TRUE, TRUE, TRUE),
    Config(TRUE, FALSE, "spaces", TRUE, FALSE, TRUE),
    Config(TRUE, FALSE, "tabs", FALSE, TRUE, FALSE),
    Config(FALSE, FALSE, "both", FALSE, FALSE, FALSE) }
LineTemplates ==
  { <<"STRING">>, <<"INVALID">>, <<"STRING", "NAME", "STRING">>,
    <<"STRING", "NEWLINE", "NAME", "INVALID">> }

\* The ceiling: deep nesting and full lines under a vector that holds few tokens.
CeilingShapes ==
  { <<"name">>, <<"sp", "name", "name">>, <<"sp", "sp", "name">>, <<"tab", "name", "op">> }
CeilingSources == LinesOf(4, CeilingShapes)
CeilingConfigs ==
  { Config(TRUE, eq, "both", semi, nl, FALSE) : eq, semi, nl \in BOOLEAN }

\* One template literal that emits many tokens in a single iteration.
TemplateSources == LinesOf(2, {<<"name">>, <<"tpl">>, <<"sp", "tpl">>})
LongTemplates == { [i \in 1..n |-> "NAME"] : n \in {1, 8} }

\* Allocation failures at every push.
AllocSources == LinesOf(3, {<<"name">>, <<"sp", "name", "bad">>, <<"tab", "tpl">>, <<"sp", "sp", "op">>})
AllocConfigs ==
  { Config(TRUE, eq, "spaces", semi, FALSE, FALSE) : eq, semi \in BOOLEAN }
AllocCalls == AllocSources \X { [config EXCEPT !.mayFail = TRUE] : config \in AllocConfigs }

\* The calls of the three runs.
IndentCalls   == (LayoutSources \X LayoutConfigs) \cup (CeilingSources \X CeilingConfigs)
LineCalls     == (LineSources \X LineConfigs) \cup AllocCalls
TemplateCalls == TemplateSources \X CeilingConfigs

NoTemplates == { <<"STRING">> }
Names == {"NAME", "STRING"}
=============================================================================
