---------------------------- MODULE CgroupPaths ----------------------------
(***************************************************************************)
(* What the agent reads out of the path of a cgroup (src/main.go): whether *)
(* it is a container's, and the pod UID and the container ID in it.        *)
(*                                                                         *)
(* A path is the sequence of its directories below the cgroup root, and a  *)
(* directory the sequence of the words its name is made of, so that a      *)
(* prefix of the name is a prefix of the words:                            *)
(*   kubepods-burstable-pod<uid>.slice  is                                 *)
(*   <<"kubepods", "-burstable", "-pod", uid, ".slice">>                   *)
(***************************************************************************)
EXTENDS Integers, SequencesExt

CONSTANTS
    LongNames,   \* the words that are 64 characters long, as docker's IDs are
    Escapes      \* a pod UID as a slice spells it, with "_" -> the UID

HasPrefix(name, word) == name # << >> /\ name[1] = word
TrimPrefix(name, prefix) ==
    IF IsPrefix(prefix, name) THEN SubSeq(name, Len(prefix) + 1, Len(name)) ELSE name
TrimSuffix(name, word) ==
    IF name # << >> /\ Last(name) = word THEN Front(name) ELSE name

\* The directories the search starts from, and what it takes for a container.
SearchPaths == {<<"kubepods", ".slice">>, <<"kubepods">>, <<"docker">>, <<"system", ".slice">>}
IsContainer(path) ==
    /\ path[1] \in SearchPaths
    /\ \/ HasPrefix(Last(path), "cri-containerd-")
       \/ HasPrefix(Last(path), "docker-")
       \/ /\ <<"docker">> \in ToSet(Front(path))
          /\ Len(Last(path)) = 1 /\ Last(path)[1] \in LongNames

-----------------------------------------------------------------------------
\* enrichFromPath.

\* The prefixes of a pod's directory are tried in turn, whatever the ones before
\* have left.
TrimPodPrefixes(name) ==
    LET bare == TrimPrefix(name, <<"pod">>)
        burstable == TrimPrefix(bare, <<"kubepods", "-burstable", "-pod">>)
        besteffort == TrimPrefix(burstable, <<"kubepods", "-besteffort", "-pod">>)
    IN  TrimPrefix(besteffort, <<"kubepods", "-guaranteed", "-pod">>)

\* A fault of UIDIn, for the mutants: the UID keeps its underscores.
UIDInEscaped(name) == TrimSuffix(TrimPodPrefixes(name), ".slice")

\* The pod UID in the name of a pod's directory.
Unescaped(word) == IF word \in DOMAIN Escapes THEN Escapes[word] ELSE word
UIDIn(name) ==
    LET uid == TrimSuffix(TrimPodPrefixes(name), ".slice")
    IN  [n \in DOMAIN uid |-> Unescaped(uid[n])]

\* Of several directories of a kind the last decides; without one the string
\* stays empty.
PodDirs(path) == {n \in DOMAIN path : HasPrefix(path[n], "pod") \/ "-pod" \in ToSet(path[n])}
ContainerDirs(path) ==
    {n \in DOMAIN path : HasPrefix(path[n], "cri-containerd-") \/ HasPrefix(path[n], "docker-")}
PodUID(path) ==
    IF PodDirs(path) = {} THEN << >> ELSE UIDIn(path[Max(PodDirs(path))])
ContainerID(path) ==
    IF ContainerDirs(path) = {} THEN << >>
    ELSE LET name == path[Max(ContainerDirs(path))]
         IN  TrimSuffix(TrimPrefix(TrimPrefix(name, <<"cri-containerd-">>), <<"docker-">>), ".scope")

\* The key under which a container's sample is kept.
KeyOfPath(path) == <<PodUID(path), ContainerID(path)>>

-----------------------------------------------------------------------------
\* The paths that the kubelet and containerd make on a node that systemd manages
\* (main.go:795 shows one); a Guaranteed pod's slice names no class.

Scope(id) == <<"cri-containerd-", id, ".scope">>
PathInClass(class, spelt, id) ==
    << <<"kubepods", ".slice">>, <<"kubepods", class, ".slice">>,
       <<"kubepods", class, "-pod", spelt, ".slice">>, Scope(id) >>
PathGuaranteed(spelt, id) ==
    << <<"kubepods", ".slice">>, <<"kubepods", "-pod", spelt, ".slice">>, Scope(id) >>

=============================================================================
