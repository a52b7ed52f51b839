--------------------------- MODULE CompileWorker ----------------------------
(***************************************************************************)
(* The pure part of crates/nisaba-compile-core/src/lib.rs: what a compile  *)
(* request must look like, and the long-lived worker of a project, whose   *)
(* Typst universe follows the sources of the requests it serves.           *)
(*   request    [project, entry, sources, size]: sources maps paths to     *)
(*              texts, a path is a sequence of components                  *)
(*   worker     [workspace, files, root, knownEntry, knownSources]: the    *)
(*              in-memory workspace, what the universe sees of it and its  *)
(*              root, and what update_sources remembers of them            *)
(***************************************************************************)
EXTENDS Integers, Sequences, FiniteSets, SequencesExt, Functions

CONSTANTS
    MaxSources,     \* max_sources
    MaxSourceBytes, \* max_source_bytes
    NoProject,      \* a project id of blanks only
    TextBytes       \* per text: its length

(* How far below the root the first components lead; -1 above it. *)
Climb(depth, component) ==
    CASE depth = -1 \/ component = "." -> depth
      [] depth # -1 /\ component = ".." -> depth - 1
      [] OTHER -> depth + 1

(* validate_virtual_path: the empty component stands for a leading slash. *)
ValidVirtualPath(path) ==
    /\ path # <<>> /\ Head(path) # ""
    /\ FoldLeft(Climb, 0, path) > 0

TotalBytes(request) ==
    FoldFunction(LAMBDA text, n : n + TextBytes[text], 0, request.sources)

(* validate_request *)
ValidRequest(request) ==
    /\ request.project # NoProject
    /\ ValidVirtualPath(request.entry)
    /\ DOMAIN request.sources # {}
    /\ Cardinality(DOMAIN request.sources) <= MaxSources
    /\ TotalBytes(request) <= MaxSourceBytes
    /\ request.entry \in DOMAIN request.sources
    /\ \A path \in DOMAIN request.sources : ValidVirtualPath(path)

(* Worker::new *)
NewWorker(request) ==
    [workspace |-> request.sources, files |-> request.sources, root |-> request.entry,
     knownEntry |-> request.entry, knownSources |-> request.sources]

(* The first two loops of update_sources: paths that are gone, then texts  *)
(* that are not the ones remembered.                                       *)
ApplySources(w, request) ==
    LET gone == DOMAIN w.knownSources \ DOMAIN request.sources
        changed == {p \in DOMAIN request.sources :
                      p \notin DOMAIN w.knownSources \/ w.knownSources[p] # request.sources[p]}
        apply(files) == [p \in (DOMAIN files \ gone) \cup changed |->
                           IF p \in changed THEN request.sources[p] ELSE files[p]]
    IN  [w EXCEPT !.workspace = apply(@), !.files = apply(@), !.knownSources = apply(@)]

(* Mutant: the universe is not rebuilt for another entry. *)
ReRootNever(w, request) == [w EXCEPT !.knownEntry = request.entry]

(* A request with another entry gets a universe built from the workspace. *)
ReRoot(w, request) ==
    IF w.knownEntry = request.entry THEN w
    ELSE [w EXCEPT !.files = w.workspace, !.root = request.entry, !.knownEntry = request.entry]

UpdateSources(w, request) == ReRoot(ApplySources(w, request), request)

(* Worker::compile reads the universe, never the request. *)
Compiled(w) == [entry |-> w.root, sources |-> w.files]

Asked(request) == [entry |-> request.entry, sources |-> request.sources]
=============================================================================
