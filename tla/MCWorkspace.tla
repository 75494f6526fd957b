---------------------------- MODULE MCWorkspace ----------------------------
(* Small file systems for TLC: the workspace <<"w">> and a directory next   *)
(* to it, places in them that may be missing, and links between them.  In a  *)
(* linked directory of skills lies a skill whose file is reached by three    *)
(* links, once more through the link to the directory.                       *)
EXTENDS Workspace, TLC

CONSTANT Name

MCPlaces == [skills |-> <<"w", "s">>, skill |-> <<"w", "s", "k">>, file |-> <<"w", "s", "k", "k">>,
             other |-> <<"w", "k">>, outside |-> <<"o", "k">>,
             linked |-> <<"w", "k", "k">>, linkedFile |-> <<"w", "k", "k", "k">>,
             shared |-> <<"w", "k", "s">>, real |-> <<"w", "k", "k", "s">>]

MCNone == [is |-> "none", to |-> <<>>, data |-> ""]

Mounted(nodes) ==
  LET all == (<<"w">> :> Dir) @@ (<<"o">> :> Dir)
             @@ [p \in {MCPlaces[x] : x \in DOMAIN MCPlaces} |->
                   nodes[CHOOSE x \in DOMAIN MCPlaces : MCPlaces[x] = p]]
      there == {p \in DOMAIN all : /\ all[p].is # "none"
                                   /\ \A q \in Above(p) \ {<<>>} : all[q].is = "dir"}
  IN  [p \in there |-> all[p]]

MCFileSystem ==
  {Mounted(n) : n \in [skills : {Dir, Link(<<"o">>), Link(<<"w", "k">>)},
                       skill : {MCNone, Dir, Link(<<"w", "k">>), Link(<<"o">>)},
                       file : {MCNone, File("f"), Link(<<"o", "k">>), Link(<<"w", "k">>)},
                       other : {MCNone, Dir, File("g"), Link(<<"w", "s">>), Link(<<"o">>),
                                Link(<<"w", "k">>), Link(<<"o", "k">>)},
                       outside : {MCNone, File("h"), Link(<<"w", "s">>)},
                       linked : {Dir}, linkedFile : {MCNone, Link(<<"w", "s", "s">>)},
                       shared : {Link(<<"w", "k", "k", "s">>)}, real : {MCNone, File("i")}]}

MCRoot == <<"w">>

MCRequest == UNION {[1 .. n -> Name \cup {".."}] : n \in 1 .. 3}
=============================================================================
