----------------------------- MODULE Directory -----------------------------
(***************************************************************************)
(* The directory helpers of include/fileutil.h: SplitPath as an operator,  *)
(* MKdirIsNotExist and RMdirIsExist as processes over one file system.     *)
(* Each access(), mkdir() and rmdir() is a step of its own, so that the    *)
(* tree may change between a test and the call it decides about.           *)
(*                                                                         *)
(* A path is the sequence of its characters.  A place in the file system   *)
(* is the sequence of the names that lead to it, the first of which starts *)
(* with "/" when the path is absolute: exactly the string `temp' the code  *)
(* builds, cut at the slashes it puts in between.  The working directory   *)
(* is not on any absolute path, and "." and ".." are not used.             *)
(***************************************************************************)
EXTENDS Integers, Sequences, SequencesExt

CONSTANTS Chars,     \* the characters of a path
          Procs,     \* the processes that call the helpers
          Paths,     \* the arguments they call them with
          Files,     \* the places that hold a file which is no directory
          NameMax    \* LU_MAX_FILESYS_NAME

VARIABLES dirs,      \* the directories that exist
          todo,      \* per process: the call it makes next
          path,      \* fpath, the argument of its last call
          q,         \* q, the names still to be made
          temp,      \* temp, the place looked at
          result,    \* what its last call returned
          hurt,      \* history: its last call was a removal, or since it began
                     \* some directory was removed or the operating system
                     \* refused the process what the tree allows
          raced      \* history: between its access() and its mkdir() another
                     \* process made the same directory

dirvars == <<dirs, todo, path, q, temp, result, hurt, raced>>

NoResult == 2
Slash == "/"
Colon == ":"

ASSUME NameMaxAssumption == NameMax \in Nat \ {0}
ASSUME ProcsAssumption == Procs # {}
ASSUME PathsAssumption == Slash \in Chars /\ Paths \subseteq Seq(Chars)

\* Nothing lies below a file.
ASSUME FilesAssumption ==
  Files \subseteq Seq(Seq(Chars)) /\ \A f, g \in Files : ~IsStrictPrefix(f, g)

-----------------------------------------------------------------------------
(* SplitPath *)

\* LU_FS_ISPLITOER
Splitter(ch) == ch \in {Slash, "\\", Colon}

\* Mutant: one character too few fits.
SplitStepShort(st, x) ==
  IF ~Splitter(x) /\ Len(st.ch) < NameMax - 1
  THEN [st EXCEPT !.ch = Append(@, x)]
  ELSE IF st.ch # <<>> THEN [ch |-> <<>>, q |-> Append(st.q, st.ch)] ELSE st

\* One round of the loop over the path: a character joins ch while there is
\* room for it; otherwise ch is pushed and the character is dropped, be it a
\* separator or the one that no longer fits.
SplitStep(st, x) ==
  IF ~Splitter(x) /\ Len(st.ch) < NameMax
  THEN [st EXCEPT !.ch = Append(@, x)]
  ELSE IF st.ch # <<>> THEN [ch |-> <<>>, q |-> Append(st.q, st.ch)] ELSE st

\* isabsolutepath: both tests look at the first character.
IsAbsolute(s) == s # <<>> /\ s[1] \in {Slash, Colon}

\* The first name of an absolute path gets its slash back.
Rooted(s, names) ==
  IF IsAbsolute(s) /\ names # <<>>
  THEN [names EXCEPT ![1] = <<Slash>> \o @] ELSE names

\* What the loop over the path has collected when it is through.
Ended(st) == IF st.ch # <<>> THEN Append(st.q, st.ch) ELSE st.q

Start == [ch |-> <<>>, q |-> <<>>]

SplitPath(s) ==
  LET loop[i \in 0 .. Len(s)] == IF i = 0 THEN Start ELSE SplitStep(loop[i - 1], s[i])
  IN  Rooted(s, Ended(loop[Len(s)]))

-----------------------------------------------------------------------------
(* The operating system *)

Exists(place) == place \in dirs \cup Files

\* The kernel cuts a path at slashes only; "" and "/" name nothing that can
\* be removed and are both the empty sequence here.
CutStep(st, x) ==
  IF x # Slash THEN [st EXCEPT !.ch = Append(@, x)]
  ELSE IF st.ch # <<>> THEN [ch |-> <<>>, q |-> Append(st.q, st.ch)] ELSE st

Resolve(s) ==
  LET cut[i \in 0 .. Len(s)] == IF i = 0 THEN Start ELSE CutStep(cut[i - 1], s[i])
      names == Ended(cut[Len(s)])
  IN  IF s # <<>> /\ s[1] = Slash /\ names # <<>>
      THEN [names EXCEPT ![1] = <<Slash>> \o @] ELSE names

\* mkdir() needs a free place in a directory.
CanMake(place) ==
  /\ ~Exists(place)
  /\ Len(place) = 1 \/ Front(place) \in dirs

\* rmdir() needs an empty directory.
CanRemove(place) ==
  /\ place \in dirs
  /\ \A d \in dirs \cup Files : d = place \/ ~IsPrefix(place, d)

-----------------------------------------------------------------------------
DirInit ==
  /\ dirs = {}
  /\ todo = [p \in Procs |-> "idle"]
  /\ path = [p \in Procs |-> <<>>]
  /\ q = [p \in Procs |-> <<>>]
  /\ temp = [p \in Procs |-> <<>>]
  /\ result = [p \in Procs |-> NoResult]
  /\ hurt = [p \in Procs |-> FALSE]
  /\ raced = [p \in Procs |-> FALSE]

Return(p, r) ==
  /\ todo' = [todo EXCEPT ![p] = "idle"]
  /\ result' = [result EXCEPT ![p] = r]

-----------------------------------------------------------------------------
(* MKdirIsNotExist *)

\* The path is split before the file system is looked at.
MKdirIsNotExist(p, s) ==
  /\ todo[p] = "idle"
  /\ todo' = [todo EXCEPT ![p] = "access"]
  /\ path' = [path EXCEPT ![p] = s]
  /\ q' = [q EXCEPT ![p] = SplitPath(s)]
  /\ temp' = [temp EXCEPT ![p] = <<>>]
  /\ result' = [result EXCEPT ![p] = NoResult]
  /\ hurt' = [hurt EXCEPT ![p] = FALSE]
  /\ raced' = [raced EXCEPT ![p] = FALSE]
  /\ UNCHANGED dirs

\* The loop ends with the queue.
AllMade(p) ==
  /\ todo[p] = "access"
  /\ q[p] = <<>>
  /\ Return(p, 1)
  /\ UNCHANGED <<dirs, path, q, temp, hurt, raced>>

\* Mutant: no look before mkdir().
AccessBlind(p) ==
  /\ todo[p] = "access"
  /\ q[p] # <<>>
  /\ temp' = [temp EXCEPT ![p] = Append(@, Head(q[p]))]
  /\ todo' = [todo EXCEPT ![p] = "mkdir"]
  /\ UNCHANGED <<dirs, path, q, result, hurt, raced>>

\* The next name is appended to temp, and access() finds the place or not.
\* It also answers -1 when the process may not look there.
AccessNext(p) ==
  /\ todo[p] = "access"
  /\ q[p] # <<>>
  /\ LET place == Append(temp[p], Head(q[p])) IN
     /\ temp' = [temp EXCEPT ![p] = place]
     /\ \/ /\ Exists(place)
           /\ q' = [q EXCEPT ![p] = Tail(@)]
           /\ UNCHANGED <<todo, hurt>>
        \/ /\ ~Exists(place)
           /\ todo' = [todo EXCEPT ![p] = "mkdir"]
           /\ UNCHANGED <<q, hurt>>
        \/ /\ Exists(place)
           /\ todo' = [todo EXCEPT ![p] = "mkdir"]
           /\ hurt' = [hurt EXCEPT ![p] = TRUE]
           /\ UNCHANGED q
  /\ UNCHANGED <<dirs, path, result, raced>>

\* mkdir() makes the directory, and the loop goes on with the next name.
Mkdir(p) ==
  /\ todo[p] = "mkdir"
  /\ CanMake(temp[p])
  /\ dirs' = dirs \cup {temp[p]}
  /\ q' = [q EXCEPT ![p] = Tail(@)]
  /\ todo' = [todo EXCEPT ![p] = "access"]
  /\ raced' = [r \in Procs |->
                 \/ raced[r]
                 \/ r # p /\ todo[r] = "mkdir" /\ temp[r] = temp[p]]
  /\ UNCHANGED <<path, temp, result, hurt>>

\* Mutant: the result of mkdir() is not looked at.
MkdirIgnored(p) ==
  /\ todo[p] = "mkdir"
  /\ hurt' = IF CanMake(temp[p]) THEN [hurt EXCEPT ![p] = TRUE] ELSE hurt
  /\ q' = [q EXCEPT ![p] = Tail(@)]
  /\ todo' = [todo EXCEPT ![p] = "access"]
  /\ UNCHANGED <<dirs, path, temp, result, raced>>

\* mkdir() fails because of what is, or no longer is, in the tree, or
\* because the process may not write there: the call gives up.
MkdirFails(p) ==
  /\ todo[p] = "mkdir"
  /\ hurt' = IF CanMake(temp[p]) THEN [hurt EXCEPT ![p] = TRUE] ELSE hurt
  /\ Return(p, 0)
  /\ UNCHANGED <<dirs, path, q, temp, raced>>

-----------------------------------------------------------------------------
(* RMdirIsExist *)

\* access() of the path as it was given; a path that is not there ends the
\* call.
RMdirIsExist(p, s) ==
  /\ todo[p] = "idle"
  /\ path' = [path EXCEPT ![p] = s]
  /\ q' = [q EXCEPT ![p] = <<>>]
  /\ temp' = [temp EXCEPT ![p] = Resolve(s)]
  /\ hurt' = [hurt EXCEPT ![p] = TRUE]
  /\ IF Exists(Resolve(s))
     THEN /\ todo' = [todo EXCEPT ![p] = "rmdir"]
          /\ result' = [result EXCEPT ![p] = NoResult]
     ELSE Return(p, 0)
  /\ UNCHANGED <<dirs, raced>>

\* rmdir() of an empty directory; every call before it has to reckon with it.
Rmdir(p) ==
  /\ todo[p] = "rmdir"
  /\ CanRemove(temp[p])
  /\ dirs' = dirs \ {temp[p]}
  /\ hurt' = [r \in Procs |-> TRUE]
  /\ Return(p, 1)
  /\ UNCHANGED <<path, q, temp, raced>>

RmdirFails(p) ==
  /\ todo[p] = "rmdir"
  /\ Return(p, 0)
  /\ UNCHANGED <<dirs, path, q, temp, hurt, raced>>

-----------------------------------------------------------------------------
Step(p) ==
  \/ AllMade(p) \/ AccessNext(p) \/ Mkdir(p) \/ MkdirFails(p)
  \/ Rmdir(p) \/ RmdirFails(p)

DirNext ==
  \E p \in Procs :
    \/ \E s \in Paths : MKdirIsNotExist(p, s) \/ RMdirIsExist(p, s)
    \/ Step(p)

DirSpec == DirInit /\ [][DirNext]_dirvars

-----------------------------------------------------------------------------
(* Properties *)

\* The types of the variables: the helpers return 0 or 1, whatever the
\* system calls below them return.
DirTypeOK ==
  /\ \A d \in dirs : d # <<>> /\ \A i \in DOMAIN d : d[i] # <<>>
  /\ todo \in [Procs -> {"idle", "access", "mkdir", "rmdir"}]
  /\ path \in [Procs -> Paths \cup {<<>>}]
  /\ q \in [Procs -> Seq(Seq(Chars))] /\ temp \in [Procs -> Seq(Seq(Chars))]
  /\ result \in [Procs -> {0, 1, NoResult}]
  /\ hurt \in [Procs -> BOOLEAN]
  /\ raced \in [Procs -> BOOLEAN]

\* The names of a path, defined without a loop: its longest stretches of
\* characters that are no separators.
Stretches(s) ==
  {r \in (DOMAIN s) \X (DOMAIN s) :
     /\ r[1] <= r[2]
     /\ \A i \in r[1] .. r[2] : ~Splitter(s[i])
     /\ r[1] = 1 \/ Splitter(s[r[1] - 1])
     /\ r[2] = Len(s) \/ Splitter(s[r[2] + 1])}

\* w has the names of s, from left to right, none lost and none doubled.
Names(s, w) ==
  \E at \in [DOMAIN w -> Stretches(s)] :
    /\ \A i, l \in DOMAIN w : i < l => at[i][1] < at[l][1]
    /\ \A r \in Stretches(s) : \E i \in DOMAIN w : at[i] = r
    /\ w = Rooted(s, [i \in DOMAIN w |-> SubSeq(s, at[i][1], at[i][2])])

Fits(s) == \A r \in Stretches(s) : r[2] - r[1] < NameMax

\* What a MKdirIsNotExist under way has looked at and what it still has to
\* make are together the names of its path, in order, none lost or doubled,
\* as long as no name is longer than LU_MAX_FILESYS_NAME (SplitPath, and
\* temp and q in the loop of MKdirIsNotExist).
NamesInOrder ==
  DirTypeOK /\ \A p \in Procs :
    todo[p] \in {"access", "mkdir"} /\ Fits(path[p]) =>
      Names(path[p], temp[p] \o (IF todo[p] = "access" THEN q[p] ELSE Tail(q[p])))

\* A MKdirIsNotExist that returned 1 has made its path: every place on it is
\* a directory, the last one at least taken, although other processes make
\* directories between its access() and its mkdir(); unless something was
\* removed since.
MakesPath ==
  \A p \in Procs :
    result[p] = 1 /\ ~hurt[p] =>
      LET place == SplitPath(path[p])
      IN \A i \in DOMAIN place :
           IF i < Len(place) THEN SubSeq(place, 1, i) \in dirs
                             ELSE Exists(place)

\* A MKdirIsNotExist that returned 0 although nothing was removed or refused
\* has met a file where it needs a directory, or has lost the race between
\* its access() and its mkdir() against another process that made the very
\* directory: then that directory is there.
FailsOnlyInTheWay ==
  \A p \in Procs :
    result[p] = 0 /\ ~hurt[p] =>
      \/ raced[p] /\ temp[p] \in dirs
      \/ \E f \in Files : IsStrictPrefix(f, SplitPath(path[p]))

\* What MKdirIsNotExist returns is true of the file system, also when other
\* processes work between its system calls.
ReturnsTheTruth == MakesPath /\ FailsOnlyInTheWay

\* Processes that all make the same path may make each other fail, but not
\* all of them in vain: when the last one has returned the path is there,
\* unless something was removed or refused or a file is in the way.
SomeoneGetsThrough ==
  \A s \in Paths :
    /\ \A p \in Procs : todo[p] = "idle" /\ path[p] = s /\ ~hurt[p]
    /\ \A p \in Procs : result[p] # NoResult
    /\ \A f \in Files : ~IsPrefix(f, SplitPath(s))
    => \A i \in DOMAIN SplitPath(s) : SubSeq(SplitPath(s), 1, i) \in dirs
=============================================================================
