----------------------------- MODULE Entrypoint -----------------------------
(***************************************************************************)
(* The entrypoint of a Workspace (workspace.go, Connect): when set, every *)
(* "../" is removed from it with strings.ReplaceAll and the result is     *)
(* joined to the working directory /tofu/<UID> with filepath.Join, which  *)
(* cleans the path lexically.  tofu then runs in that directory, and the  *)
(* credential and configuration files are written there.                   *)
(*                                                                         *)
(* A string is a sequence of one-character strings over a small alphabet  *)
(* holding the two characters that matter ('.' and '/') and one letter.   *)
(* A path is the sequence of its components below the root.                *)
(***************************************************************************)
EXTENDS Naturals, Sequences, SequencesExt

CONSTANTS
    MaxLen,   \* longest entrypoint considered
    UID       \* the name of the Workspace's directory

Chars == {".", "/", "a"}

(* The working directory /tofu/<UID>, as components below the root.       *)
WorkDir == << <<"t", "o", "f", "u">>, <<UID>> >>

(* Every entrypoint of at most MaxLen characters.                         *)
Inputs == BoundedSeq(Chars, MaxLen)

VARIABLES
    entrypoint,   \* spec.forProvider.entrypoint
    dir           \* the directory Connect hands to the tofu harness

vars == <<entrypoint, dir>>

-----------------------------------------------------------------------------
(* strings.ReplaceAll(s, "../", ""): scan from the left, dropping each    *)
(* occurrence and going on after it; what a removal brings together is    *)
(* not scanned again.                                                      *)
RECURSIVE DropDotDotSlash(_)
DropDotDotSlash(s) ==
    IF Len(s) < 3 THEN s
    ELSE IF SubSeq(s, 1, 3) = <<".", ".", "/">>
         THEN DropDotDotSlash(SubSeq(s, 4, Len(s)))
         ELSE <<Head(s)>> \o DropDotDotSlash(Tail(s))

(* The components of s between the separators '/'.                        *)
RECURSIVE Components(_)
Components(s) ==
    LET sep == SelectInSeq(s, LAMBDA c : c = "/")
    IN IF sep = 0 THEN <<s>>
       ELSE <<SubSeq(s, 1, sep - 1)>> \o Components(SubSeq(s, sep + 1, Len(s)))

(* One component of filepath.Clean on a rooted path: empty names and "."  *)
(* are dropped, ".." removes the last name and is dropped at the root.    *)
CleanStep(path, c) ==
    IF c = <<>> \/ c = <<".">> THEN path
    ELSE IF c = <<".", ".">> THEN (IF path = <<>> THEN path ELSE Front(path))
    ELSE Append(path, c)

(* filepath.Join(dir, e): the components of e appended to dir, cleaned.  *)
Join(base, e) == FoldLeft(CleanStep, base, Components(e))

-----------------------------------------------------------------------------
Init ==
    /\ entrypoint \in Inputs
    /\ dir = WorkDir

(* Connect computes the directory from the entrypoint.                     *)
Connect ==
    /\ dir' = IF Len(entrypoint) > 0
              THEN Join(WorkDir, DropDotDotSlash(entrypoint))
              ELSE WorkDir
    /\ UNCHANGED entrypoint

Spec == Init /\ [][Connect]_vars

-----------------------------------------------------------------------------
(* The spec's promise for the sanitised entrypoint: for an entrypoint     *)
(* containing "../", the directory tofu runs in never resolves outside     *)
(* the Workspace's own working directory.                                  *)
EntrypointConfined ==
    <<".", ".", "/">> \in SubSeqs(entrypoint) => IsPrefix(WorkDir, dir)

=============================================================================
