----------------------------- MODULE Workspace -----------------------------
(***************************************************************************)
(* The files of a session: how the sandbox resolves a path and reads and    *)
(* writes at it (src/sandbox/path.go, securePath; Read and Write of         *)
(* src/sandbox/local.go and bwrap.go), and how skills are found             *)
(* (src/skills/skills.go, Filesystem.List).                                 *)
(*                                                                          *)
(* A file system is a function from the places that exist to what is there: *)
(* a directory, a file with its data, or a link with its target.  Places    *)
(* and targets are absolute, as sequences of names.  A requested path may   *)
(* have ".." in it.  Nothing else changes the files during an operation.    *)
(***************************************************************************)
EXTENDS Naturals, Sequences, SequencesExt

CONSTANTS FileSystem,    \* the file systems to begin with
          Request,       \* the paths that are asked for
          Root,          \* the workspace, a directory
          SkillsDir,     \* the name of the directory of skills in it
          SkillFile,     \* the name of the file of a skill
          MaxLinks,      \* links followed before giving up (255)
          MaxOps         \* bound on the operations

\* What an entry of a directory can be called.
Names == STRING \ {".."}

Node == [is : {"dir", "file", "link"}, to : Seq(Names), data : STRING]

Above(path) == {SubSeq(path, 1, n) : n \in 0 .. Len(path) - 1}

\* What is there lies in directories; the workspace is one of them.
ASSUME WorkspaceAssumption ==
  /\ \A files \in FileSystem :
       /\ \A p \in DOMAIN files :
            /\ p \in Seq(Names) /\ files[p] \in Node
            /\ \A q \in Above(p) \ {<<>>} : q \in DOMAIN files /\ files[q].is = "dir"
       /\ Root \in DOMAIN files /\ files[Root].is = "dir"
  /\ Request \subseteq Seq(STRING)
  /\ SkillsDir \in Names /\ SkillFile \in Names
  /\ MaxLinks \in Nat /\ MaxOps \in Nat

VARIABLES fs,         \* the file system
          begin,      \* as it was in the beginning (history)
          last,       \* the last operation: its path and what came of it
          ops

vars == <<fs, begin, last, ops>>

Dir == [is |-> "dir", to |-> <<>>, data |-> ""]
File(data) == [is |-> "file", to |-> <<>>, data |-> data]
Link(to) == [is |-> "link", to |-> to, data |-> ""]

-----------------------------------------------------------------------------
(* The operating system.                                                    *)

Found(at) == [err |-> "none", at |-> at]
Missing == [err |-> "missing", at |-> <<>>]
Failed == [err |-> "other", at |-> <<>>]
TooManyLinks == [err |-> "links", at |-> <<>>]

\* The place a path leads to, links followed, the last one included.
Walk(path) ==
  LET walk[s \in [at : Seq(Names), rest : Seq(Names), links : Nat]] ==
        LET next == Append(s.at, Head(s.rest))
            rest == Tail(s.rest)
        IN  CASE s.rest = <<>> -> Found(s.at)
              [] s.rest # <<>> /\ next \notin DOMAIN fs -> Missing
              [] OTHER ->
                   CASE fs[next].is = "link" /\ s.links = 0 -> TooManyLinks
                     [] fs[next].is = "link" /\ s.links > 0 ->
                          walk[[at |-> <<>>, rest |-> fs[next].to \o rest, links |-> s.links - 1]]
                     [] fs[next].is = "file" /\ rest # <<>> -> Failed
                     [] OTHER -> walk[[at |-> next, rest |-> rest, links |-> s.links]]
  IN  walk[[at |-> <<>>, rest |-> path, links |-> MaxLinks]]

\* Whether there is something at a path, itself a link or not.
Lstat(path) ==
  IF path = <<>> THEN "none"
  ELSE LET parent == Walk(Front(path))
       IN  CASE parent.err # "none" -> parent.err
             [] parent.at # <<>> /\ fs[parent.at].is # "dir" -> "other"
             [] Append(parent.at, Last(path)) \in DOMAIN fs -> "none"
             [] OTHER -> "missing"

-----------------------------------------------------------------------------
(* securePath.                                                              *)

\* filepath.Clean of the path as an absolute one.
Clean(path) ==
  LET done[n \in 0 .. Len(path)] ==
        IF n = 0 THEN <<>>
        ELSE IF path[n] # ".." THEN Append(done[n - 1], path[n])
        ELSE IF done[n - 1] = <<>> THEN <<>> ELSE Front(done[n - 1])
  IN  done[Len(path)]

\* Mutant: the parent of a new file is not resolved.
NewTargetPlain(target) == Found(target)

\* Where a file is to be created: the nearest parent that exists is resolved,
\* the rest is appended.
NewTarget(target) ==
  LET there == {p \in Above(target) : Lstat(p) # "missing"}
      nearest == CHOOSE p \in there : \A q \in there : Len(q) <= Len(p)
      parent == Walk(nearest)
  IN  IF Lstat(nearest) # "none" \/ parent.err # "none" THEN Failed
      ELSE Found(parent.at \o SubSeq(target, Len(nearest) + 1, Len(target)))

\* Mutant: the result is not compared with the workspace.
InsideAny(place) == TRUE

Inside(place) == IsPrefix(Root, place)

SecurePath(path, forWrite) ==
  LET target == Root \o Clean(path)
      result == IF forWrite /\ Lstat(target) # "none" THEN NewTarget(target) ELSE Walk(target)
  IN  IF result.err # "none" \/ ~Inside(result.at) THEN Failed ELSE result

-----------------------------------------------------------------------------
(* Read and Write.                                                          *)

\* os.ReadFile of a place; "" is an error.
DataAt(place) == IF place \in DOMAIN fs /\ fs[place].is = "file" THEN fs[place].data ELSE ""

ReadData(path) == LET p == SecurePath(path, FALSE)
                  IN  IF p.err # "none" THEN "" ELSE DataAt(p.at)

Read(path) == /\ last' = [op |-> "read", path |-> path, data |-> ReadData(path)]
              /\ UNCHANGED fs

\* os.MkdirAll of the parent and os.WriteFile.
Write(path) ==
  LET p == SecurePath(path, TRUE)
      parents == Above(p.at) \ {<<>>}
      blocked == \/ p.err # "none"
                 \/ \E q \in parents \cap DOMAIN fs : fs[q].is = "file"
                 \/ p.at \in DOMAIN fs /\ fs[p.at].is # "file"
  IN  /\ fs' = IF blocked THEN fs
                ELSE [q \in {p.at} \cup DOMAIN fs \cup parents |->
                        IF q = p.at THEN File("new") ELSE IF q \in DOMAIN fs THEN fs[q] ELSE Dir]
      /\ last' = [op |-> "write", path |-> path, data |-> IF blocked THEN "" ELSE "new"]

\* Filesystem.List: the directories of skills with a file that can be read.
SkillsRoot == Walk(Append(Root, SkillsDir))

\* Mutant: the file of a skill may lie anywhere.
SkillInsideAny(root, place) == TRUE

SkillInside(root, place) == IsPrefix(root, place)

Skills ==
  LET root == SkillsRoot.at
      names == {Last(p) : p \in {q \in DOMAIN fs : q # <<>> /\ Front(q) = root /\ fs[q].is = "dir"}}
      file(name) == Walk(root \o <<name, SkillFile>>)
  IN  IF SkillsRoot.err # "none" THEN {}
      ELSE {[name |-> name, data |-> DataAt(file(name).at)] :
              name \in {n \in names : /\ file(n).err = "none"
                                      /\ SkillInside(root, file(n).at)
                                      /\ DataAt(file(n).at) # ""}}

Init == /\ fs \in FileSystem /\ begin = fs /\ ops = 0
        /\ last = [op |-> "none", path |-> <<>>, data |-> ""]

Next == /\ ops < MaxOps /\ ops' = ops + 1
        /\ \E path \in Request : Read(path) \/ Write(path)
        /\ UNCHANGED begin

Spec == Init /\ [][Next]_vars

-----------------------------------------------------------------------------
(* Properties.                                                              *)

\* No operation changes, creates or replaces anything that is not below the
\* workspace, wherever its links lead, and nothing but files and their
\* parents appear below it: the comment on securePath.
OnlyWorkspaceChanges ==
  /\ DOMAIN begin \subseteq DOMAIN fs
  /\ \A p \in DOMAIN fs :
       p \notin DOMAIN begin \/ fs[p] # begin[p]
         => IsPrefix(Root, p) /\ (p \in DOMAIN begin => begin[p].is = "file" /\ fs[p].is = "file")

\* What was written at a path is read at it, by whichever links and missing
\* directories it goes.
ReadAfterWrite == last.op = "write" /\ last.data # "" => ReadData(last.path) = last.data

\* A skill on the list is one the agent can read with its tools: read_file
\* returns the same instructions, if the skills are in the workspace and the
\* links on both halves of the path, to the directory of skills and from there
\* to the file, are together not more than are followed.
SkillsReadable ==
  IsPrefix(Root, SkillsRoot.at) =>
    \A s \in Skills :
      LET path == <<SkillsDir, s.name, SkillFile>>
      IN  ReadData(path) = s.data \/ Walk(Root \o path) = TooManyLinks
=============================================================================
