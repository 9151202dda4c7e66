------------------------------ MODULE CliProofs ------------------------------
(* Proofs about the command line client, for every set of runs, of slugs and of *)
(* commands.                                                                    *)
EXTENDS Cli, TLAPS

-----------------------------------------------------------------------------
(* The inductive invariant *)

\* A run is at a place of its own command.
PlacesOK ==
    \A r \in Runs :
        /\ at[r] \notin {"idle", "over"} => cmd[r] \in CommandLines
        /\ at[r] = "pinning" => cmd[r].name = "use"
        /\ at[r] = "environment" => cmd[r].name \in PairCommands
        /\ at[r] \in {"project", "environment", "token", "calling", "answering"} => cmd[r].name # "use"
        /\ at[r] = "storing" => cmd[r].name = "login"
        /\ at[r] = "writing" => cmd[r].name \in {"login", "use"}
        /\ at[r] = "forgetting" => cmd[r].name = "logout"
        /\ at[r] = "spawning" => cmd[r].name = "run"

Before == {"idle", "pinning", "project", "environment", "token", "calling"}

\* The server has done nothing for a run that has not called, and has done what was
\* asked for a run that acts on its answer.
EffectOK ==
    \A r \in Runs :
        /\ performed[r] <= 1
        /\ at[r] \in Before => performed[r] = 0 /\ answer[r] = None
        /\ at[r] = "answering" /\ answer[r] = "ok" => performed[r] = 1
        /\ at[r] \in {"storing", "spawning"} => performed[r] = 1
        /\ at[r] = "writing" /\ cmd[r].name = "login" => performed[r] = 1
        /\ at[r] # "over" => exit[r] = None
        /\ exit[r] = "success" /\ cmd[r].name \notin {"logout", "use"} => performed[r] = 1
        /\ exit[r] = "success" /\ cmd[r].name = "run" => child[r] = 0

\* A token in the file, or one a run has read from it, is of a login that is over:
\* nobody will store it, or have it issued, again.
TokensOK ==
    /\ tokenFile \in Runs => performed[tokenFile] = 1 /\ at[tokenFile] = "over"
    /\ \A r \in Runs :
          \/ token[r] \in {None, GivenToken, "root"}
          \/ token[r] \in Runs /\ performed[token[r]] = 1 /\ at[token[r]] = "over"

\* The pin file is empty or holds a pair that was pinned, or a mix of such pairs.
PinFileOK ==
    /\ pinned \subseteq Pins
    /\ ~mixed => pinFile \in pinned \cup {NoPin}
    /\ mixed => pinFile[1] # None
    /\ \A half \in 1 .. 2 : pinFile[half] # None => \E pair \in pinned : pair[half] = pinFile[half]

\* A run that has read one half of the pin undisturbed would still read the other.
HalfwayOK ==
    \A r \in Runs : at[r] = "environment" /\ ~overlapped[r] =>
        IF cmd[r].project # None THEN target[r][1] = cmd[r].project
        ELSE pinFile \in pinned /\ target[r][1] = pinFile[1]

\* Each half that a run resolved is its flag, or was pinned.
Sourced(half, chosen, found) ==
    \E pair \in pinned \cup {chosen} :
        pair[half] # None /\ found = IF chosen[half] # None THEN chosen[half] ELSE pair[half]

HalvesOK ==
    \A r \in Runs : cmd[r].name \in PairCommands =>
        LET chosen == <<cmd[r].project, cmd[r].environment>>
        IN /\ at[r] \in {"environment", "token", "calling"} => Sourced(1, chosen, target[r][1])
           /\ at[r] \in {"token", "calling"} => Sourced(2, chosen, target[r][2])

\* What a run resolved, it keeps.
ResolvedOK ==
    \A r \in Runs :
        LET chosen == <<cmd[r].project, cmd[r].environment>>
        IN at[r] \in {"token", "calling"} /\ cmd[r].name \in PairCommands /\ ~overlapped[r] =>
             \E pair \in pinned \cup {chosen} :
                \A half \in 1 .. 2 :
                    target[r][half] = IF chosen[half] # None THEN chosen[half] ELSE pair[half]

IInv == TypeOK /\ PlacesOK /\ EffectOK /\ TokensOK /\ LogoutLasts
        /\ PinFileOK /\ HalfwayOK /\ HalvesOK /\ ResolvedOK

-----------------------------------------------------------------------------
(* Command lines *)

\* What the flags of a command line may be.
LEMMA LineFields ==
    ASSUME NEW line \in CommandLines
    PROVE  /\ line = [name |-> line.name, project |-> line.project,
                      environment |-> line.environment, token |-> line.token]
           /\ line.name \in Offered \cup {"use"} /\ line.token \in {GivenToken, None}
           /\ line.name = "use" => <<line.project, line.environment>> \in Pins
           /\ line.name # "use" => line.project \in Projects \cup {None}
                                   /\ line.environment \in Environments \cup {None}
           /\ line.project # None => line.name \in PairCommands \cup ProjectCommands \cup {"use"}
<1>1. CASE line \in [name : Offered, project : Projects \cup {None},
               environment : Environments \cup {None}, token : {GivenToken, None}]
           /\ line.name # "use"
           /\ (line.project # None => line.name \in PairCommands \cup ProjectCommands)
  BY <1>1
<1>2. ASSUME NEW pin \in Pins,
             line = [name |-> "use", project |-> pin[1], environment |-> pin[2], token |-> None]
      PROVE  /\ line.name = "use" /\ line.token = None
             /\ <<line.project, line.environment>> \in Pins
             /\ line = [name |-> line.name, project |-> line.project,
                      environment |-> line.environment, token |-> line.token]
  <2>1. line.project = pin[1] /\ line.environment = pin[2]
    BY <1>2
  <2>2. pin = <<pin[1], pin[2]>>
    BY CliAssumption
  <2> QED BY <1>2, <2>1, <2>2
<1> QED BY <1>1, <1>2 DEF CommandLines

\* Every run's command line has a name, which outlives its flags.
LEMMA CmdNames ==
    ASSUME TypeOK, NEW r \in Runs
    PROVE  /\ cmd[r].name \in Offered \cup {"use", None}
           /\ Bare(cmd[r].name) \in {Bare(name) : name \in Offered \cup {"use", None}}
           /\ Bare(cmd[r].name).name = cmd[r].name
<1>1. cmd[r] \in CommandLines \cup {Bare(name) : name \in Offered \cup {"use", None}}
  BY DEF TypeOK
<1>2. CASE cmd[r] \in CommandLines
  <2>1. cmd[r].name \in Offered \cup {"use"}
    BY <1>2, LineFields
  <2> QED BY <2>1 DEF Bare
<1>3. ASSUME NEW name \in Offered \cup {"use", None}, cmd[r] = Bare(name)
      PROVE  cmd[r].name = name
  BY <1>3 DEF Bare
<1>4. cmd[r].name \in Offered \cup {"use", None}
  BY <1>1, <1>2, <1>3
<1> QED BY <1>4 DEF Bare

-----------------------------------------------------------------------------
(* One run moves *)

Places == {"idle", "project", "environment", "token", "calling", "answering",
           "storing", "writing", "forgetting", "pinning", "spawning", "over"}
Codes == {None, "success", "failure", "killed"}

\* Where the runs are, and what they have resolved, has its type.
RunsOK ==
    /\ cmd \in [Runs -> CommandLines \cup {Bare(name) : name \in Offered \cup {"use", None}}]
    /\ at \in [Runs -> Places]
    /\ target \in [Runs -> (Projects \cup {None} \cup {pin[1] : pin \in Pins})
                          \X (Environments \cup {None} \cup {pin[2] : pin \in Pins})]
    /\ exit \in [Runs -> Codes]

\* Run r goes to a place, and no other run moves.
Moves(r, place) ==
    /\ at'[r] = place
    /\ \A q \in Runs \ {r} : /\ at'[q] = at[q] /\ cmd'[q] = cmd[q]
                             /\ target'[q] = target[q] /\ exit'[q] = exit[q]
    /\ \A q \in Runs : cmd'[q].name = cmd[q].name

LEMMA ExitsMoves ==
    ASSUME TypeOK, NEW r \in Runs, NEW code \in Codes, Exits(r, code)
    PROVE  RunsOK' /\ Moves(r, "over") /\ exit'[r] = code
<1>1. /\ Bare(cmd[r].name) \in {Bare(name) : name \in Offered \cup {"use", None}}
      /\ Bare(cmd[r].name).name = cmd[r].name
  BY CmdNames
<1>2. /\ at' \in [Runs -> Places] /\ exit' \in [Runs -> Codes]
      /\ at'[r] = "over" /\ exit'[r] = code
      /\ \A q \in Runs \ {r} : at'[q] = at[q] /\ exit'[q] = exit[q]
  BY DEF TypeOK, Exits, Goes, Places, Codes
<1>3. /\ cmd' \in [Runs -> CommandLines \cup {Bare(name) : name \in Offered \cup {"use", None}}]
      /\ cmd'[r] = Bare(cmd[r].name)
      /\ \A q \in Runs \ {r} : cmd'[q] = cmd[q]
  BY <1>1 DEF TypeOK, Exits
<1>4. /\ target' \in [Runs -> (Projects \cup {None} \cup {pin[1] : pin \in Pins})
                            \X (Environments \cup {None} \cup {pin[2] : pin \in Pins})]
      /\ \A q \in Runs \ {r} : target'[q] = target[q]
  BY DEF TypeOK, Exits, NoPin
<1> QED BY <1>1, <1>2, <1>3, <1>4 DEF RunsOK, Moves

LEMMA ProceedsMoves ==
    ASSUME TypeOK, NEW r \in Runs, NEW place \in Places, Proceeds(r, place)
    PROVE  RunsOK' /\ Moves(r, place)
BY DEF TypeOK, Proceeds, Goes, RunsOK, Moves, Places, Codes

\* A run ends: it fails, it is killed, or it had done what it asked for.
LEMMA EndOK ==
    ASSUME IInv, NEW r \in Runs, NEW code \in {"success", "failure", "killed"},
           at[r] \notin {"idle", "over"}, Exits(r, code),
           UNCHANGED <<files, token, answer, server>>,
           child' \in [Runs -> {NotRun, -1, 0, 1, 256}],
           \A q \in Runs \ {r} : child'[q] = child[q],
           code = "success" => /\ cmd[r].name \notin {"logout", "use"} /\ performed[r] = 1
                               /\ cmd[r].name = "run" => child'[r] = 0
    PROVE  IInv'
<1> USE DEF IInv, files, server
<1>1. RunsOK' /\ Moves(r, "over") /\ exit'[r] = code
  BY ExitsMoves DEF Codes
<1>2. TypeOK'
  BY <1>1 DEF TypeOK, RunsOK, Places, Codes
<1> USE <1>1 DEF Moves
<1>3. PlacesOK'
  BY DEF PlacesOK
<1>4. EffectOK'
  BY DEF EffectOK, Before
<1>5. TokensOK'
  BY DEF TokensOK
<1>6. LogoutLasts'
  BY DEF LogoutLasts
<1>7. (PinFileOK /\ HalfwayOK /\ HalvesOK /\ ResolvedOK)'
  BY DEF PinFileOK, HalfwayOK, HalvesOK, Sourced, ResolvedOK
<1> QED BY <1>2, <1>3, <1>4, <1>5, <1>6, <1>7

\* A run that fails, or is killed, leaves everything else as it is.
LEMMA FailOK ==
    ASSUME IInv, NEW r \in Runs, NEW code \in {"failure", "killed"},
           at[r] \notin {"idle", "over"}, Exits(r, code),
           UNCHANGED <<files, token, answer, child, server>>
    PROVE  IInv'
<1>1. child' \in [Runs -> {NotRun, -1, 0, 1, 256}]
  BY DEF IInv, TypeOK
<1> QED BY <1>1, EndOK

\* A run goes on to act on the answer, or without one.
LEMMA ActOK ==
    ASSUME IInv, NEW r \in Runs, NEW place, at[r] \notin {"idle", "over"},
           Proceeds(r, place), UNCHANGED <<files, token, answer, child, server>>,
           \/ place = "forgetting" /\ cmd[r].name = "logout"
           \/ place = "storing" /\ cmd[r].name = "login" /\ performed[r] = 1
           \/ place = "spawning" /\ cmd[r].name = "run" /\ performed[r] = 1
    PROVE  IInv'
<1> USE DEF IInv, files, server
<1>1. place \in Places /\ UNCHANGED <<exit, cmd, target>>
  BY DEF Places, Proceeds
<1>2. RunsOK' /\ Moves(r, place)
  BY <1>1, ProceedsMoves
<1>3. TypeOK'
  BY <1>2 DEF TypeOK, RunsOK, Places, Codes
<1> USE <1>1, <1>2 DEF Moves
<1>4. PlacesOK'
  BY DEF PlacesOK
<1>5. EffectOK'
  BY DEF EffectOK, Before
<1>6. TokensOK'
  BY DEF TokensOK
<1>7. LogoutLasts'
  BY DEF LogoutLasts
<1>8. (PinFileOK /\ HalfwayOK /\ HalvesOK /\ ResolvedOK)'
  BY DEF PinFileOK, HalfwayOK, HalvesOK, Sourced, ResolvedOK
<1> QED BY <1>3, <1>4, <1>5, <1>6, <1>7, <1>8

-----------------------------------------------------------------------------
(* Before the call *)

LEMMA StartOK == ASSUME NEW r \in Runs, NEW line \in CommandLines, IInv, Start(r, line) PROVE IInv'
<1> USE DEF IInv, Start, Goes, files, resolved, server
<1>1. /\ First(line.name) \in {"pinning", "project", "token"}
      /\ First(line.name) = "pinning" <=> line.name = "use"
  BY DEF First, PairCommands, ProjectCommands
<1>2. /\ at'[r] = First(line.name) /\ cmd'[r] = line /\ at[r] = "idle"
      /\ \A q \in Runs \ {r} : at'[q] = at[q] /\ cmd'[q] = cmd[q]
  BY DEF TypeOK
<1>3. TypeOK'
  BY <1>1 DEF TypeOK
<1> HIDE DEF Start, Goes
<1> USE <1>1, <1>2
<1> UNCHANGED <<tokenFile, unlinked, pinFile, mixed, pinned, overlapped, target, token, answer,
                child, exit, live, performed>>
  BY DEF Start
<1>4. PlacesOK'
  BY DEF PlacesOK
<1>5. EffectOK'
  <2>1. exit[r] # "success"
    BY DEF EffectOK, None
  <2> QED BY <2>1 DEF EffectOK, Before
<1>6. TokensOK'
  BY DEF TokensOK
<1>7. LogoutLasts'
  <2>1. answer[r] # "ok" /\ exit[r] # "success"
    BY DEF EffectOK, Before, None
  <2> QED BY <2>1 DEF LogoutLasts
<1>8. (PinFileOK /\ HalfwayOK)'
  BY DEF PinFileOK, HalfwayOK
<1>10. HalvesOK'
  BY DEF HalvesOK, Sourced, First
<1>9. ResolvedOK'
  BY DEF ResolvedOK, First
<1> QED BY <1>3, <1>4, <1>5, <1>6, <1>7, <1>8, <1>9, <1>10

LEMMA MisusedOK == ASSUME NEW r \in Runs, IInv, Misused(r) PROVE IInv'
BY FailOK DEF Misused

LEMMA KillOK == ASSUME NEW r \in Runs, IInv, Kill(r) PROVE IInv'
BY FailOK DEF Kill

\* Replacing one half of a pair.
LEMMA HalfReplaced ==
    ASSUME NEW A, NEW B, NEW t \in A \X B, NEW x
    PROVE  /\ [t EXCEPT ![1] = x] = <<x, t[2]>>
           /\ [t EXCEPT ![2] = x] = <<t[1], x>>
OBVIOUS

LEMMA ReadProjectOK == ASSUME NEW r \in Runs, IInv, ReadProject(r) PROVE IInv'
<1> DEFINE found == IF cmd[r].project # None THEN cmd[r].project ELSE pinFile[1]
           place == IF cmd[r].name \in PairCommands THEN "environment" ELSE "token"
<1> USE DEF IInv
<1>0. /\ overlapped' \in [Runs -> BOOLEAN]
      /\ \A q \in Runs \ {r} : overlapped'[q] = overlapped[q]
      /\ ~overlapped'[r] => ~overlapped[r] /\ (cmd[r].project = None => ~mixed)
      /\ UNCHANGED <<tokenFile, unlinked, pinFile, mixed, pinned, token, answer, child, live, performed>>
  <2>1. overlapped' = [overlapped EXCEPT ![r] = overlapped[r] \/ (mixed /\ cmd[r].project = None)]
    BY DEF ReadProject
  <2>2. overlapped \in [Runs -> BOOLEAN]
    BY DEF TypeOK
  <2>3. overlapped'[r] = (overlapped[r] \/ (mixed /\ cmd[r].project = None))
    BY <2>1, <2>2, Zenon
  <2>4. (overlapped[r] \/ (mixed /\ cmd[r].project = None)) \in BOOLEAN
    OBVIOUS
  <2>5. overlapped' \in [Runs -> BOOLEAN]
    BY <2>1, <2>2, <2>4
  <2>6. \A q \in Runs \ {r} : overlapped'[q] = overlapped[q]
    BY <2>1, <2>2
  <2> QED BY <2>3, <2>5, <2>6 DEF ReadProject, server
<1>1. CASE found = None /\ Exits(r, "failure")
  <2>1. cmd[r].project = None /\ ~mixed
    BY <1>1 DEF PinFileOK
  <2>2. (overlapped[r] \/ (mixed /\ cmd[r].project = None)) = overlapped[r]
    BY <2>1 DEF TypeOK
  <2>3. overlapped' = [overlapped EXCEPT ![r] = overlapped[r]]
    BY <2>2 DEF ReadProject
  <2>4. overlapped' = overlapped
    BY <2>3 DEF TypeOK
  <2> QED BY <1>0, <1>1, <2>4, FailOK DEF ReadProject, files, server
<1>2. ASSUME found # None, target' = [target EXCEPT ![r][1] = found],
             Goes(r, place), UNCHANGED <<exit, cmd>>
      PROVE  IInv'
  <2>1. found \in Projects \cup {pin[1] : pin \in Pins}
    <3>1. CASE cmd[r].project # None
      <4>1. cmd[r] \in CommandLines /\ cmd[r].name # "use"
        BY DEF ReadProject, PlacesOK
      <4> QED BY <3>1, <4>1, LineFields
    <3>2. CASE cmd[r].project = None
      <4>1. PICK pair \in pinned : pair[1] = found
        BY <1>2, <3>2 DEF PinFileOK
      <4> QED BY <4>1 DEF PinFileOK
    <3> QED BY <3>1, <3>2
  <2>2. /\ target'[r] = <<found, target[r][2]>>
        /\ \A q \in Runs \ {r} : target'[q] = target[q]
        /\ target' \in [Runs -> (Projects \cup {None} \cup {pin[1] : pin \in Pins})
                               \X (Environments \cup {None} \cup {pin[2] : pin \in Pins})]
    BY <1>2, <2>1, HalfReplaced DEF TypeOK
  <2>3. /\ at'[r] = place /\ place \in {"environment", "token"} /\ at[r] = "project"
        /\ at' \in [Runs -> Places]
        /\ \A q \in Runs \ {r} : at'[q] = at[q]
    BY <1>2 DEF TypeOK, ReadProject, Goes, Places
  <2>4. UNCHANGED <<tokenFile, unlinked, pinFile, mixed, pinned, cmd, token, answer,
                    child, exit, live, performed>>
    BY <1>0, <1>2
  <2>5. TypeOK'
    BY <1>0, <2>2, <2>3, <2>4 DEF TypeOK, Places
  <2>6. (PlacesOK /\ EffectOK)'
    BY <2>3, <2>4 DEF PlacesOK, EffectOK, Before
  <2>7. (TokensOK /\ LogoutLasts /\ PinFileOK)'
    BY <2>3, <2>4 DEF TokensOK, LogoutLasts, PinFileOK
  <2>8. HalfwayOK'
    <3>1. ~overlapped'[r] /\ cmd[r].project = None => pinFile \in pinned /\ found = pinFile[1]
      BY <1>0, <1>2 DEF PinFileOK, NoPin
    <3>2. target'[r][1] = found
      BY <2>2
    <3> QED BY <1>0, <2>2, <2>3, <2>4, <3>1, <3>2 DEF HalfwayOK
  <2>9. ResolvedOK'
    BY <1>0, <2>2, <2>3, <2>4 DEF ResolvedOK
  <2>10. HalvesOK'
    <3> DEFINE chosen == <<cmd[r].project, cmd[r].environment>>
    <3>1. Sourced(1, chosen, found)
      <4>1. CASE cmd[r].project # None
        <5>1. chosen[1] = cmd[r].project /\ chosen \in pinned \cup {chosen}
          OBVIOUS
        <5> QED BY <4>1, <5>1 DEF Sourced
      <4>2. CASE cmd[r].project = None
        <5>1. PICK pair \in pinned : pair[1] = found
          BY <1>2, <4>2 DEF PinFileOK
        <5> QED BY <1>2, <4>2, <5>1 DEF Sourced
      <4> QED BY <4>1, <4>2
    <3>2. Sourced(1, chosen, found)'
      BY <1>2, <2>4, <3>1 DEF Sourced
    <3>3. ASSUME NEW q \in Runs \ {r}, cmd[q].name \in PairCommands
          PROVE  LET c == <<cmd[q].project, cmd[q].environment>>
                 IN /\ at'[q] \in {"environment", "token", "calling"} => Sourced(1, c, target'[q][1])
                    /\ at'[q] \in {"token", "calling"} => Sourced(2, c, target'[q][2])
      BY <2>2, <2>3, <3>3 DEF HalvesOK
    <3> QED BY <2>2, <2>3, <2>4, <3>1, <3>3 DEF HalvesOK, Sourced
  <2> QED BY <2>5, <2>6, <2>7, <2>8, <2>9, <2>10
<1> QED BY <1>1, <1>2 DEF ReadProject, Resolves

LEMMA ReadEnvironmentOK == ASSUME NEW r \in Runs, IInv, ReadEnvironment(r) PROVE IInv'
<1> DEFINE found == IF cmd[r].environment # None THEN cmd[r].environment ELSE pinFile[2]
<1> USE DEF IInv
<1>1. CASE Exits(r, "failure")
  BY <1>1, FailOK DEF ReadEnvironment
<1>2. ASSUME found # None, target' = [target EXCEPT ![r][2] = found],
             Goes(r, "token"), UNCHANGED <<exit, cmd>>
      PROVE  IInv'
  <2>0. cmd[r] \in CommandLines /\ cmd[r].name # "use" /\ at[r] = "environment"
    BY DEF ReadEnvironment, PlacesOK
  <2>1. found \in Environments \cup {pin[2] : pin \in Pins}
    <3>1. CASE cmd[r].environment # None
      BY <2>0, <3>1, LineFields
    <3>2. CASE cmd[r].environment = None
      <4>1. PICK pair \in pinned : pair[2] = found
        BY <1>2, <3>2 DEF PinFileOK
      <4> QED BY <4>1 DEF PinFileOK
    <3> QED BY <3>1, <3>2
  <2>2. /\ target'[r] = <<target[r][1], found>>
        /\ \A q \in Runs \ {r} : target'[q] = target[q]
        /\ target' \in [Runs -> (Projects \cup {None} \cup {pin[1] : pin \in Pins})
                               \X (Environments \cup {None} \cup {pin[2] : pin \in Pins})]
    BY <1>2, <2>1, HalfReplaced DEF TypeOK
  <2>3. /\ at'[r] = "token" /\ at' \in [Runs -> Places]
        /\ \A q \in Runs \ {r} : at'[q] = at[q]
    BY <1>2 DEF TypeOK, Goes, Places
  <2>4. UNCHANGED <<tokenFile, unlinked, pinFile, mixed, pinned, overlapped, cmd, token, answer,
                    child, exit, live, performed>>
    BY <1>2 DEF ReadEnvironment, files, server
  <2>5. TypeOK'
    BY <2>2, <2>3, <2>4 DEF TypeOK, Places
  <2>6. (PlacesOK /\ EffectOK)'
    BY <2>0, <2>3, <2>4 DEF PlacesOK, EffectOK, Before
  <2>7. (TokensOK /\ LogoutLasts /\ PinFileOK)'
    BY <2>0, <2>3, <2>4 DEF TokensOK, LogoutLasts, PinFileOK
  <2>8. HalfwayOK'
    BY <2>2, <2>3, <2>4 DEF HalfwayOK
  <2>9. ResolvedOK'
    <3> DEFINE chosen == <<cmd[r].project, cmd[r].environment>>
    <3>1. ASSUME ~overlapped[r]
          PROVE  \E pair \in pinned \cup {chosen} :
                    \A half \in 1 .. 2 :
                      target'[r][half] = IF chosen[half] # None THEN chosen[half] ELSE pair[half]
      <4>1. target'[r][1] = target[r][1] /\ target'[r][2] = found
        BY <2>2
      <4>2. CASE cmd[r].project # None /\ cmd[r].environment # None
        <5>1. target[r][1] = cmd[r].project
          BY <2>0, <3>1, <4>2 DEF HalfwayOK
        <5>2. \A half \in 1 .. 2 : target'[r][half] = chosen[half] /\ chosen[half] # None
          BY <4>1, <4>2, <5>1
        <5> QED BY <5>2
      <4>3. CASE cmd[r].project = None
        <5>1. pinFile \in pinned /\ target[r][1] = pinFile[1]
          BY <2>0, <3>1, <4>3 DEF HalfwayOK
        <5> QED BY <4>1, <4>3, <5>1
      <4>4. CASE cmd[r].project # None /\ cmd[r].environment = None
        <5>1. PICK pair \in pinned : pair[2] = found
          BY <1>2, <4>4 DEF PinFileOK
        <5>2. target[r][1] = cmd[r].project
          BY <2>0, <3>1, <4>4 DEF HalfwayOK
        <5> QED BY <4>1, <4>4, <5>1, <5>2
      <4> QED BY <4>2, <4>3, <4>4
    <3> QED BY <2>2, <2>3, <2>4, <3>1 DEF ResolvedOK
  <2>10. HalvesOK'
    <3> DEFINE chosen == <<cmd[r].project, cmd[r].environment>>
    <3>1. Sourced(2, chosen, found)
      <4>1. CASE cmd[r].environment # None
        <5>1. chosen[2] = cmd[r].environment /\ chosen \in pinned \cup {chosen}
          OBVIOUS
        <5> QED BY <4>1, <5>1 DEF Sourced
      <4>2. CASE cmd[r].environment = None
        <5>1. PICK pair \in pinned : pair[2] = found
          BY <1>2, <4>2 DEF PinFileOK
        <5> QED BY <1>2, <4>2, <5>1 DEF Sourced
      <4> QED BY <4>1, <4>2
    <3>2. Sourced(1, chosen, target[r][1])
      BY <2>0 DEF HalvesOK, PlacesOK
    <3>3. ASSUME NEW q \in Runs \ {r}, cmd[q].name \in PairCommands
          PROVE  LET c == <<cmd[q].project, cmd[q].environment>>
                 IN /\ at'[q] \in {"environment", "token", "calling"} => Sourced(1, c, target'[q][1])
                    /\ at'[q] \in {"token", "calling"} => Sourced(2, c, target'[q][2])
      BY <2>2, <2>3, <3>3 DEF HalvesOK
    <3> QED BY <2>2, <2>3, <2>4, <3>1, <3>2, <3>3 DEF HalvesOK, Sourced
  <2> QED BY <2>5, <2>6, <2>7, <2>8, <2>9, <2>10
<1> QED BY <1>1, <1>2 DEF ReadEnvironment, Resolves

\* A run that has its token goes on to call.
LEMMA TokenOK ==
    ASSUME IInv, NEW r \in Runs, at[r] = "token",
           NEW found \in Runs \cup {GivenToken, "root", None},
           found \in Runs => found = tokenFile,
           token' = [token EXCEPT ![r] = found],
           Proceeds(r, "calling"), UNCHANGED <<files, answer, child, server>>
    PROVE  IInv'
<1> USE DEF IInv, files, server
<1>1. RunsOK' /\ Moves(r, "calling") /\ UNCHANGED <<exit, cmd, target>>
  BY ProceedsMoves DEF Places, Proceeds
<1>2. /\ token'[r] = found /\ \A q \in Runs \ {r} : token'[q] = token[q]
      /\ token' \in [Runs -> Runs \cup {GivenToken, "root", None, Empty}]
  BY DEF TypeOK
<1>3. TypeOK'
  BY <1>1, <1>2 DEF TypeOK, RunsOK, Places, Codes
<1> USE <1>1, <1>2 DEF Moves
<1>4. PlacesOK'
  BY DEF PlacesOK
<1>5. EffectOK'
  BY DEF EffectOK, Before
<1>6. TokensOK'
  BY DEF TokensOK
<1>7. LogoutLasts'
  <2>1. answer[r] # "ok" /\ exit[r] # "success"
    BY DEF EffectOK, Before, None
  <2> QED BY <2>1 DEF LogoutLasts
<1>8. (PinFileOK /\ HalfwayOK /\ HalvesOK /\ ResolvedOK)'
  BY DEF PinFileOK, HalfwayOK, HalvesOK, Sourced, ResolvedOK
<1> QED BY <1>3, <1>4, <1>5, <1>6, <1>7, <1>8

LEMMA ReadTokenOK == ASSUME NEW r \in Runs, IInv, ReadToken(r) PROVE IInv'
<1> DEFINE found == IF cmd[r].token # None THEN cmd[r].token ELSE CachedToken
<1>1. /\ at[r] = "token" /\ UNCHANGED <<files, answer, child, server>>
      /\ cmd[r] \in CommandLines
  BY DEF IInv, PlacesOK, ReadToken
<1>2. found \in Runs \cup {GivenToken, None} /\ (found \in Runs => found = tokenFile)
  <2>1. cmd[r].token \in {GivenToken, None}
    BY <1>1, LineFields
  <2>2. CachedToken \in Runs \cup {None} /\ (CachedToken \in Runs => CachedToken = tokenFile)
    BY CliAssumption DEF IInv, TypeOK, CachedToken
  <2> QED BY <2>1, <2>2, CliAssumption
<1>3. CASE token' = [token EXCEPT ![r] = found] /\ Proceeds(r, "calling")
  BY <1>1, <1>2, <1>3, TokenOK
<1>4. CASE token' = [token EXCEPT ![r] = "root"] /\ Proceeds(r, "calling")
  BY <1>1, <1>4, TokenOK, CliAssumption
<1>5. CASE UNCHANGED token /\ Exits(r, "failure")
  BY <1>1, <1>5, FailOK
<1>6. CASE cmd[r].name = "logout" /\ UNCHANGED token /\ Proceeds(r, "forgetting")
  BY <1>1, <1>6, ActOK
<1> QED BY <1>3, <1>4, <1>5, <1>6 DEF ReadToken, AskForRoot

-----------------------------------------------------------------------------
(* The call *)

LEMMA ServeOK == ASSUME NEW r \in Runs, IInv, Serve(r) PROVE IInv'
<1> USE DEF IInv
<1>1. /\ RunsOK' /\ Moves(r, "answering") /\ UNCHANGED <<exit, cmd, target>>
      /\ at[r] = "calling"
      /\ UNCHANGED <<tokenFile, unlinked, pinFile, mixed, pinned, overlapped, token, child>>
  BY ProceedsMoves DEF Serve, Places, Proceeds, files
<1>2. cmd[r] \in CommandLines /\ cmd[r].name # "use"
  BY <1>1 DEF PlacesOK
<1>3. performed[r] = 0 /\ \A q \in Runs : token[q] # r /\ tokenFile # r
  BY <1>1, CliAssumption DEF EffectOK, TokensOK, Before
<1>4. /\ answer' \in [Runs -> {None, "ok", "refused"}]
      /\ \A q \in Runs \ {r} : answer'[q] = answer[q] /\ performed'[q] = performed[q]
      /\ performed' \in [Runs -> 0 .. 2]
      /\ \/ answer'[r] = "refused" /\ performed'[r] = 0 /\ live' = live
         \/ /\ answer'[r] = "ok" /\ performed'[r] = 1
            /\ live' \subseteq live \cup {r}
            /\ cmd[r].name = "logout" => live' = live \ {token[r]}
  <2>1. /\ answer \in [Runs -> {None, "ok", "refused"}]
        /\ performed \in [Runs -> 0 .. 2]
    BY DEF TypeOK
  <2>2. CASE answer' = [answer EXCEPT ![r] = "refused"] /\ UNCHANGED server
    BY <1>3, <2>1, <2>2 DEF server
  <2>3. CASE /\ answer' = [answer EXCEPT ![r] = "ok"]
             /\ performed' = [performed EXCEPT ![r] = @ + 1]
             /\ live' = CASE cmd[r].name = "login" -> live \cup {r}
                          [] cmd[r].name = "logout" -> live \ {token[r]}
                          [] OTHER -> live
    <3>1. /\ live' \subseteq live \cup {r}
          /\ cmd[r].name = "logout" => live' = live \ {token[r]}
      BY <2>3
    <3>2. /\ answer' \in [Runs -> {None, "ok", "refused"}] /\ answer'[r] = "ok"
          /\ \A q \in Runs \ {r} : answer'[q] = answer[q]
      BY <2>1, <2>3
    <3>3. /\ performed' \in [Runs -> 0 .. 2] /\ performed'[r] = 1
          /\ \A q \in Runs \ {r} : performed'[q] = performed[q]
      BY <1>3, <2>1, <2>3
    <3> QED BY <3>1, <3>2, <3>3
  <2> QED BY <2>2, <2>3 DEF Serve
<1>5. TypeOK'
  BY <1>1, <1>4 DEF TypeOK, RunsOK, Places, Codes
<1> USE <1>1, <1>3, <1>4 DEF Moves
<1>6. PlacesOK'
  BY DEF PlacesOK
<1>7. EffectOK'
  BY DEF EffectOK, Before, None
<1>8. TokensOK'
  BY DEF TokensOK
<1>9. LogoutLasts'
  BY DEF LogoutLasts
<1>10. (PinFileOK /\ HalfwayOK /\ HalvesOK /\ ResolvedOK)'
  BY DEF PinFileOK, HalfwayOK, HalvesOK, Sourced, ResolvedOK
<1> QED BY <1>5, <1>6, <1>7, <1>8, <1>9, <1>10

\* What a run does when its call ended is right if an answer that says "ok" is the
\* server's.
LEMMA AfterCallOK ==
    ASSUME IInv, NEW r \in Runs, NEW how, at[r] \in {"calling", "answering"},
           AfterCall(r, how), UNCHANGED <<files, token, answer, child, server>>,
           how = "ok" => performed[r] = 1
    PROVE  IInv'
<1>1. cmd[r].name # "use"
  BY DEF IInv, PlacesOK
<1>2. CASE Exits(r, "failure")
  BY <1>2, FailOK
<1>3. CASE cmd[r].name = "logout" /\ Proceeds(r, "forgetting")
  BY <1>3, ActOK
<1>4. CASE how = "ok" /\ cmd[r].name = "login" /\ Proceeds(r, "storing")
  BY <1>4, ActOK
<1>5. CASE how = "ok" /\ cmd[r].name = "run" /\ Proceeds(r, "spawning")
  BY <1>5, ActOK
<1>6. CASE how = "ok" /\ cmd[r].name \notin {"logout", "login", "run"} /\ Exits(r, "success")
  <2>1. child' \in [Runs -> {NotRun, -1, 0, 1, 256}]
    BY DEF IInv, TypeOK
  <2> QED BY <1>1, <1>6, <2>1, EndOK
<1> QED BY <1>2, <1>3, <1>4, <1>5, <1>6 DEF AfterCall

LEMMA ReceiveOK == ASSUME NEW r \in Runs, IInv, Receive(r) PROVE IInv'
<1>1. at[r] = "answering" /\ answer[r] = "ok" => performed[r] = 1
  BY DEF IInv, EffectOK
<1> QED BY <1>1, AfterCallOK DEF Receive

LEMMA CallFailsOK == ASSUME NEW r \in Runs, IInv, CallFails(r) PROVE IInv'
BY AfterCallOK DEF CallFails

-----------------------------------------------------------------------------
(* After the call *)

LEMMA StoreOpenOK == ASSUME NEW r \in Runs, IInv, StoreOpen(r) PROVE IInv'
<1> USE DEF IInv
<1>1. CASE UNCHANGED tokenFile /\ Exits(r, "failure")
  BY <1>1, FailOK DEF StoreOpen, files
<1>2. CASE tokenFile' = Empty /\ Proceeds(r, "writing")
  <2>1. /\ RunsOK' /\ Moves(r, "writing") /\ UNCHANGED <<exit, cmd, target>>
        /\ at[r] = "storing"
        /\ UNCHANGED <<unlinked, pinFile, mixed, pinned, overlapped, token, answer, child, live, performed>>
    BY <1>2, ProceedsMoves DEF StoreOpen, Places, Proceeds, server
  <2>2. TypeOK'
    BY <1>2, <2>1 DEF TypeOK, RunsOK, Places, Codes
  <2> USE <1>2, <2>1 DEF Moves
  <2>3. (PlacesOK /\ EffectOK)'
    BY DEF PlacesOK, EffectOK, Before
  <2>4. TokensOK'
    BY CliAssumption DEF TokensOK
  <2>5. LogoutLasts'
    BY CliAssumption DEF LogoutLasts
  <2>6. (PinFileOK /\ HalfwayOK /\ HalvesOK /\ ResolvedOK)'
    BY DEF PinFileOK, HalfwayOK, HalvesOK, Sourced, ResolvedOK
  <2> QED BY <2>2, <2>3, <2>4, <2>5, <2>6
<1> QED BY <1>1, <1>2 DEF StoreOpen

LEMMA StoreWriteOK == ASSUME NEW r \in Runs, IInv, StoreWrite(r) PROVE IInv'
<1> USE DEF IInv
<1>1. CASE UNCHANGED tokenFile /\ Exits(r, "failure")
  BY <1>1, FailOK DEF StoreWrite, files
<1>2. CASE tokenFile' \in {tokenFile, r} /\ Exits(r, "success")
  <2>1. /\ RunsOK' /\ Moves(r, "over") /\ exit'[r] = "success"
        /\ at[r] = "writing" /\ cmd[r].name = "login"
        /\ UNCHANGED <<unlinked, pinFile, mixed, pinned, overlapped, token, answer, child, live, performed>>
    BY <1>2, ExitsMoves DEF StoreWrite, Codes, server
  <2>2. TypeOK'
    BY <1>2, <2>1 DEF TypeOK, RunsOK, Places, Codes
  <2>3. performed[r] = 1 /\ \A q \in Runs : token[q] # r
    BY <2>1, CliAssumption DEF EffectOK, TokensOK
  <2> USE <1>2, <2>1, <2>3 DEF Moves
  <2>4. (PlacesOK /\ EffectOK)'
    BY DEF PlacesOK, EffectOK, Before
  <2>5. TokensOK'
    BY DEF TokensOK
  <2>6. LogoutLasts'
    BY DEF LogoutLasts
  <2>7. (PinFileOK /\ HalfwayOK /\ HalvesOK /\ ResolvedOK)'
    BY DEF PinFileOK, HalfwayOK, HalvesOK, Sourced, ResolvedOK
  <2> QED BY <2>2, <2>4, <2>5, <2>6, <2>7
<1> QED BY <1>1, <1>2 DEF StoreWrite

LEMMA ForgetTokenOK == ASSUME NEW r \in Runs, IInv, ForgetToken(r) PROVE IInv'
<1> USE DEF IInv
<1>1. CASE UNCHANGED <<tokenFile, unlinked>> /\ Exits(r, "failure")
  BY <1>1, FailOK DEF ForgetToken, files
<1>2. CASE tokenFile' = None /\ Exits(r, "success") /\ unlinked' \subseteq unlinked \cup Runs
  <2>1. /\ RunsOK' /\ Moves(r, "over") /\ exit'[r] = "success"
        /\ at[r] = "forgetting" /\ cmd[r].name = "logout"
        /\ UNCHANGED <<pinFile, mixed, pinned, overlapped, token, answer, child, live, performed>>
    BY <1>2, ExitsMoves DEF ForgetToken, PlacesOK, Codes, server
  <2>2. TypeOK'
    BY <1>2, <2>1 DEF TypeOK, RunsOK, Places, Codes
  <2> USE <1>2, <2>1 DEF Moves
  <2>3. (PlacesOK /\ EffectOK)'
    BY DEF PlacesOK, EffectOK, Before
  <2>4. TokensOK'
    BY CliAssumption DEF TokensOK
  <2>5. LogoutLasts'
    BY CliAssumption DEF LogoutLasts
  <2>6. (PinFileOK /\ HalfwayOK /\ HalvesOK /\ ResolvedOK)'
    BY DEF PinFileOK, HalfwayOK, HalvesOK, Sourced, ResolvedOK
  <2> QED BY <2>2, <2>3, <2>4, <2>5, <2>6
<1> QED BY <1>1, <1>2 DEF ForgetToken

LEMMA RunChildOK == ASSUME NEW r \in Runs, IInv, RunChild(r) PROVE IInv'
<1>1. /\ at[r] = "spawning" /\ cmd[r].name = "run" /\ performed[r] = 1
      /\ child \in [Runs -> {NotRun, -1, 0, 1, 256}]
      /\ UNCHANGED <<files, token, answer, server>>
  BY DEF IInv, RunChild, PlacesOK, EffectOK, TypeOK
<1>2. CASE UNCHANGED child /\ Exits(r, "failure")
  BY <1>1, <1>2, FailOK
<1>3. ASSUME NEW code \in {-1, 0, 1, 256}, child' = [child EXCEPT ![r] = code],
             Exits(r, ExitOf(code))
      PROVE  IInv'
  <2>1. /\ child' \in [Runs -> {NotRun, -1, 0, 1, 256}] /\ child'[r] = code
        /\ \A q \in Runs \ {r} : child'[q] = child[q]
    BY <1>1, <1>3
  <2>2. ExitOf(code) \in {"success", "failure"} /\ (ExitOf(code) = "success" => code = 0)
    BY DEF ExitOf
  <2> QED BY <1>1, <1>3, <2>1, <2>2, EndOK
<1> QED BY <1>2, <1>3 DEF RunChild

\* Writing the pin file disturbs those who have read one half of it, and no others.
LEMMA Interference ==
    ASSUME TypeOK, Interferes
    PROVE  /\ overlapped' \in [Runs -> BOOLEAN]
           /\ \A q \in Runs : at[q] = "environment" => overlapped'[q]
           /\ \A q \in Runs : at[q] # "environment" => (overlapped'[q] <=> overlapped[q])
BY DEF TypeOK, Interferes, Halfway

LEMMA PinOpenOK == ASSUME NEW r \in Runs, IInv, PinOpen(r) PROVE IInv'
<1> USE DEF IInv
<1>1. CASE UNCHANGED <<pinFile, mixed, overlapped>> /\ Exits(r, "failure")
  BY <1>1, FailOK DEF PinOpen, files
<1>2. CASE pinFile' = NoPin /\ mixed' = FALSE /\ Interferes /\ Proceeds(r, "writing")
  <2>1. /\ RunsOK' /\ Moves(r, "writing") /\ UNCHANGED <<exit, cmd, target>>
        /\ at[r] = "pinning" /\ cmd[r].name = "use"
        /\ UNCHANGED <<tokenFile, unlinked, pinned, token, answer, child, live, performed>>
    BY <1>2, ProceedsMoves DEF PinOpen, PlacesOK, Places, Proceeds, server
  <2>2. /\ overlapped' \in [Runs -> BOOLEAN]
        /\ \A q \in Runs : at[q] = "environment" => overlapped'[q]
        /\ \A q \in Runs : at[q] # "environment" => (overlapped'[q] <=> overlapped[q])
    BY <1>2, Interference
  <2>3. TypeOK'
    <3>1. pinFile'[1] = None /\ pinFile'[2] = None /\ NoPin[1] = None /\ NoPin[2] = None
      BY <1>2 DEF NoPin
    <3>2. mixed' \in BOOLEAN
      BY <1>2
    <3> QED BY <2>1, <2>2, <3>1, <3>2 DEF TypeOK, RunsOK, Places, Codes
  <2> USE <2>1 DEF Moves
  <2>4. (PlacesOK /\ EffectOK)'
    BY DEF PlacesOK, EffectOK, Before
  <2>5. (TokensOK /\ LogoutLasts)'
    BY DEF TokensOK, LogoutLasts
  <2>6. PinFileOK'
    <3>1. pinFile'[1] = None /\ pinFile'[2] = None
      BY <1>2 DEF NoPin
    <3> QED BY <1>2, <3>1 DEF PinFileOK
  <2>7. (HalfwayOK /\ HalvesOK /\ ResolvedOK)'
    BY <2>2 DEF HalfwayOK, HalvesOK, Sourced, ResolvedOK
  <2> QED BY <2>3, <2>4, <2>5, <2>6, <2>7
<1> QED BY <1>1, <1>2 DEF PinOpen

LEMMA PinWriteOK == ASSUME NEW r \in Runs, IInv, PinWrite(r) PROVE IInv'
<1> DEFINE pair == <<cmd[r].project, cmd[r].environment>>
<1> USE DEF IInv
<1>1. CASE UNCHANGED <<pinFile, mixed, pinned, overlapped>> /\ Exits(r, "failure")
  BY <1>1, FailOK DEF PinWrite, files
<1>2. ASSUME NEW environment \in {cmd[r].environment} \cup ({pinFile[2]} \ {None}),
             pinFile' = <<cmd[r].project, environment>>, mixed' = (pinFile # NoPin),
             pinned' = pinned \cup {pair}, Interferes, Exits(r, "success")
      PROVE  IInv'
  <2>1. /\ RunsOK' /\ Moves(r, "over") /\ exit'[r] = "success"
        /\ at[r] = "writing" /\ cmd[r].name = "use" /\ cmd[r] \in CommandLines
        /\ UNCHANGED <<tokenFile, unlinked, token, answer, child, live, performed>>
    BY <1>2, ExitsMoves DEF PinWrite, PlacesOK, Codes, server
  <2>2. pair \in Pins /\ pair[1] = cmd[r].project /\ pair[2] = cmd[r].environment
    BY <2>1, LineFields
  <2>3. /\ overlapped' \in [Runs -> BOOLEAN]
        /\ \A q \in Runs : at[q] = "environment" => overlapped'[q]
        /\ \A q \in Runs : at[q] # "environment" => (overlapped'[q] <=> overlapped[q])
    BY <1>2, Interference
  <2>4. pinFile'[1] = pair[1] /\ pinFile'[2] = environment
    BY <1>2, <2>2
  <2> HIDE DEF pair
  <2>5. TypeOK'
    <3>1. pinFile'[1] \in {pin[1] : pin \in Pins \cup {NoPin}}
      BY <2>2, <2>4
    <3>2. pinFile'[2] \in {pin[2] : pin \in Pins \cup {NoPin}}
      <4>1. CASE environment = pair[2]
        BY <2>2, <2>4, <4>1
      <4>2. CASE environment = pinFile[2]
        BY <2>4, <4>2 DEF TypeOK
      <4> QED BY <1>2, <2>2, <4>1, <4>2
    <3>3. pinned' \subseteq Pins
      BY <1>2, <2>2 DEF PinFileOK
    <3>4. mixed' \in BOOLEAN
      BY <1>2
    <3> QED BY <2>1, <2>3, <3>1, <3>2, <3>3, <3>4 DEF TypeOK, RunsOK, Places, Codes
  <2>6. PinFileOK'
    <3>1. ~mixed' => pinFile' \in pinned' \cup {NoPin}
      <4>1. CASE pinFile = NoPin
        <5>1. environment = cmd[r].environment
          BY <1>2, <4>1 DEF NoPin
        <5>2. pinFile' = pair
          BY <1>2, <5>1 DEF pair
        <5> QED BY <1>2, <5>2
      <4>2. CASE pinFile # NoPin
        BY <1>2, <4>2
      <4> QED BY <4>1, <4>2
    <3>2. pinFile'[1] # None
      BY <2>2, <2>4, CliAssumption
    <3>3. \E q \in pinned' : q[1] = pinFile'[1]
      BY <1>2, <2>4
    <3>4. pinFile'[2] # None => \E q \in pinned' : q[2] = pinFile'[2]
      <4>1. CASE environment = pair[2]
        BY <1>2, <2>4, <4>1
      <4>2. CASE environment = pinFile[2]
        BY <1>2, <2>4, <4>2 DEF PinFileOK
      <4> QED BY <1>2, <2>2, <4>1, <4>2
    <3>5. pinned' \subseteq Pins
      BY <1>2, <2>2 DEF PinFileOK
    <3> QED BY <3>1, <3>2, <3>3, <3>4, <3>5 DEF PinFileOK
  <2> USE <2>1 DEF Moves
  <2>7. (PlacesOK /\ EffectOK)'
    BY DEF PlacesOK, EffectOK, Before
  <2>8. (TokensOK /\ LogoutLasts)'
    BY DEF TokensOK, LogoutLasts
  <2>9. HalfwayOK'
    BY <2>3 DEF HalfwayOK
  <2>10. HalvesOK'
    BY <1>2 DEF HalvesOK, Sourced
  <2>11. ResolvedOK'
    BY <1>2, <2>3 DEF ResolvedOK
  <2> QED BY <2>5, <2>6, <2>7, <2>8, <2>9, <2>10, <2>11
<1> QED BY <1>1, <1>2 DEF PinWrite

-----------------------------------------------------------------------------
(* The theorems *)

LEMMA InitOK == Init => IInv
<1> SUFFICES ASSUME Init PROVE IInv
  OBVIOUS
<1> USE CliAssumption DEF Init
<1>1. TypeOK
  <2>1. Bare(None) \in {Bare(name) : name \in Offered \cup {"use", None}}
    OBVIOUS
  <2>2. /\ pinFile[1] \in {pin[1] : pin \in Pins \cup {NoPin}}
        /\ pinFile[2] \in {pin[2] : pin \in Pins \cup {NoPin}}
    OBVIOUS
  <2>3. NoPin \in (Projects \cup {None} \cup {pin[1] : pin \in Pins})
                  \X (Environments \cup {None} \cup {pin[2] : pin \in Pins})
    BY DEF NoPin
  <2>4. pinned \subseteq Pins
    OBVIOUS
  <2>5. /\ cmd \in [Runs -> CommandLines \cup {Bare(name) : name \in Offered \cup {"use", None}}]
        /\ target \in [Runs -> (Projects \cup {None} \cup {pin[1] : pin \in Pins})
                              \X (Environments \cup {None} \cup {pin[2] : pin \in Pins})]
    BY <2>1, <2>3
  <2>6. /\ tokenFile \in Runs \cup {None, Empty} /\ unlinked \subseteq Runs
        /\ live \subseteq Runs \cup {GivenToken, "root"} /\ mixed \in BOOLEAN
    BY Zenon
  <2>7. at \in [Runs -> Places] /\ exit \in [Runs -> Codes]
    BY DEF Places, Codes, None
  <2>8. /\ token \in [Runs -> Runs \cup {GivenToken, "root", None, Empty}]
        /\ answer \in [Runs -> {None, "ok", "refused"}]
    BY Zenon
  <2>9. /\ child \in [Runs -> {NotRun, -1, 0, 1, 256}]
        /\ performed \in [Runs -> 0 .. 2]
    BY SMT
  <2>10. overlapped \in [Runs -> BOOLEAN]
    BY Zenon
  <2> QED BY <2>2, <2>4, <2>5, <2>6, <2>7, <2>8, <2>9, <2>10 DEF TypeOK
<1>2. (PlacesOK /\ EffectOK)
  BY DEF PlacesOK, EffectOK, Before, None
<1>3. TokensOK /\ LogoutLasts
  BY DEF TokensOK, LogoutLasts
<1>4. PinFileOK
  <2>1. \A half \in 1 .. 2 : NoPin[half] = None
    <3>1. NoPin[1] = None /\ NoPin[2] = None
      BY DEF NoPin
    <3>2. \A half \in 1 .. 2 : half = 1 \/ half = 2
      OBVIOUS
    <3> QED BY <3>1, <3>2
  <2>2. CASE pinFile = NoPin
    BY <2>1, <2>2 DEF PinFileOK
  <2>3. CASE pinFile # NoPin
    <3>1. pinned = {pinFile} /\ pinFile \in Pins
      BY <2>3
    <3> QED BY <3>1 DEF PinFileOK
  <2> QED BY <2>2, <2>3
<1>5. HalfwayOK /\ HalvesOK /\ ResolvedOK
  BY DEF HalfwayOK, HalvesOK, ResolvedOK
<1> QED BY <1>1, <1>2, <1>3, <1>4, <1>5 DEF IInv

LEMMA StutterOK == IInv /\ UNCHANGED vars => IInv'
<1> SUFFICES ASSUME IInv, UNCHANGED vars PROVE IInv'
  OBVIOUS
<1> USE DEF IInv, vars
<1>1. TypeOK'
  BY DEF TypeOK
<1>2. (PlacesOK /\ EffectOK)'
  BY DEF PlacesOK, EffectOK
<1>3. (TokensOK /\ LogoutLasts)'
  BY DEF TokensOK, LogoutLasts
<1>4. (PinFileOK /\ HalfwayOK /\ HalvesOK /\ ResolvedOK)'
  BY DEF PinFileOK, HalfwayOK, HalvesOK, Sourced, ResolvedOK
<1> QED BY <1>1, <1>2, <1>3, <1>4

LEMMA StepOK == IInv /\ [Next]_vars => IInv'
BY StartOK, MisusedOK, ReadProjectOK, ReadEnvironmentOK, ReadTokenOK, ServeOK, ReceiveOK,
   CallFailsOK, StoreOpenOK, StoreWriteOK, ForgetTokenOK, PinOpenOK, PinWriteOK,
   RunChildOK, KillOK, StutterOK
   DEF Next

\* The invariant holds of every behaviour of the client's runs.
THEOREM Invariance == Spec => []IInv
BY InitOK, StepOK, PTL DEF Spec

\* Every variable keeps its type, whatever is run, lost and killed.
THEOREM TypeCorrect == Spec => []TypeOK
<1>1. IInv => TypeOK
  BY DEF IInv
<1> QED BY <1>1, Invariance, PTL

\* A run's exit code tells what the server did for it: done once after a success, at
\* most once after a failure (client.rs, Api::call sends a request once; main.rs).
THEOREM AlwaysExitTellsEffect == Spec => []ExitTellsEffect
<1>1. IInv => ExitTellsEffect
  BY DEF IInv, EffectOK, ExitTellsEffect
<1> QED BY <1>1, Invariance, PTL

\* What a run names is what the user chose or pinned, half by half, and pinned as a
\* pair unless runs of `use` overlapped it or each other (Common::project,
\* Common::environment, write_pin).
THEOREM AlwaysTargetIsPinned == Spec => []TargetIsPinned
<1>1. ASSUME IInv PROVE TargetIsPinned
  <2> SUFFICES ASSUME NEW r \in Runs, at[r] = "calling", cmd[r].name \in PairCommands
               PROVE  LET chosen == <<cmd[r].project, cmd[r].environment>>
                          From(half, pair) ==
                             target[r][half] = IF chosen[half] # None THEN chosen[half] ELSE pair[half]
                      IN /\ \A half \in 1 .. 2 :
                               \E pair \in pinned \cup {chosen} : pair[half] # None /\ From(half, pair)
                         /\ ~overlapped[r] => \E pair \in pinned \cup {chosen} :
                               \A half \in 1 .. 2 : From(half, pair)
    BY DEF TargetIsPinned
  <2> DEFINE chosen == <<cmd[r].project, cmd[r].environment>>
  <2>1. Sourced(1, chosen, target[r][1]) /\ Sourced(2, chosen, target[r][2])
    BY <1>1 DEF IInv, HalvesOK
  <2>2. \A half \in 1 .. 2 : half = 1 \/ half = 2
    OBVIOUS
  <2>3. \A half \in 1 .. 2 : Sourced(half, chosen, target[r][half])
    BY <2>1, <2>2
  <2>4. ~overlapped[r] => \E pair \in pinned \cup {chosen} :
          \A half \in 1 .. 2 :
             target[r][half] = IF chosen[half] # None THEN chosen[half] ELSE pair[half]
    BY <1>1 DEF IInv, ResolvedOK
  <2> QED BY <2>3, <2>4 DEF Sourced
<1> QED BY <1>1, Invariance, PTL

\* Every token sent was issued, whole, though logins are killed between truncating
\* the token file and writing it (write_private, cached_token).
THEOREM AlwaysTokensAreWhole == Spec => []TokensAreWhole
<1>1. IInv => TokensAreWhole
  BY DEF IInv, TokensOK, TokensAreWhole
<1> QED BY <1>1, Invariance, PTL

\* A logout lasts: the token is gone from the file for good, and dead once the server
\* answered (forget_token), however many runs log in and out at the same time.
THEOREM AlwaysLogoutLasts == Spec => []LogoutLasts
<1>1. IInv => LogoutLasts
  BY DEF IInv
<1> QED BY <1>1, Invariance, PTL
=============================================================================
