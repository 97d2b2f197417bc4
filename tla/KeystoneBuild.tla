---------------------------- MODULE KeystoneBuild ----------------------------
(***************************************************************************)
(* tools/keystone.py: the host assembler, from an archive that is fetched  *)
(* once, unpacked once, edited in two places and built.  Each of these is  *)
(* skipped when its result seems to be there.                              *)
(***************************************************************************)
EXTENDS MakeAgenda

VARIABLES
    archive,    \* "none", "partial" or "whole"
    source,     \* the source tree: "none", "partial" or "whole"
    policy,     \* of each policy file: "old", "torn" or "new"
    library     \* "none", "partial" or "whole"

keystone == <<archive, source, policy, library>>

PolicyFiles == 1..2

KeystoneInit ==
    /\ archive = "none"
    /\ source = "none"
    /\ policy = [f \in PolicyFiles |-> "old"]
    /\ library = "none"

\* main: a library that is there is taken as it is, unless forced.
Bootstrap ==
    /\ At("keystone")
    /\ Then(IF library # "none" /\ Arg # "force" THEN <<>>
            ELSE <<<<"source", 0>>, <<"policy", 1>>, <<"policy", 2>>, <<"build", 0>>, <<"copy", 0>>>>)
    /\ UNCHANGED keystone

\* extract_source, fetch_archive
FindSource ==
    /\ At("source")
    /\ Then(IF source # "none" THEN <<>>
            ELSE IF archive # "none" THEN <<<<"untar", 0>>>>
            ELSE <<<<"download", 0>>, <<"untar", 0>>>>)
    /\ UNCHANGED keystone

Download ==
    /\ At("download")
    /\ archive' = "partial"
    /\ Then(<<<<"downloaded", 0>>>>)
    /\ UNCHANGED <<source, policy, library>>

Downloaded ==
    /\ At("downloaded")
    /\ archive' = "whole"
    /\ Then(<<>>)
    /\ UNCHANGED <<source, policy, library>>

\* A truncated archive is noticed when its end is reached.
Untar ==
    /\ At("untar")
    /\ \/ source' = "partial" /\ archive = "whole" /\ Then(<<<<"untarred", 0>>>>)
       \/ source' \in {"none", "partial"} /\ archive = "partial" /\ Stop
    /\ UNCHANGED <<archive, policy, library>>

Untarred ==
    /\ At("untarred")
    /\ source' = "whole"
    /\ Then(<<>>)
    /\ UNCHANGED <<archive, policy, library>>

\* Mutant: without the check for a file that was edited before.
EditPolicyOnce ==
    /\ At("policy")
    /\ \/ policy[Arg] = "old" /\ policy' = [policy EXCEPT ![Arg] = "torn"] /\ Then(<<<<"rewrite", Arg>>>>)
       \/ (policy[Arg] # "old" \/ source = "partial") /\ Stop /\ UNCHANGED policy
    /\ UNCHANGED <<archive, source, library>>

\* apply_cmake_policy: a file that was edited before is skipped, one that has
\* neither policy, or is missing from a partial tree, is an error.
EditPolicy ==
    /\ At("policy")
    /\ \/ policy[Arg] = "new" /\ Then(<<>>) /\ UNCHANGED policy
       \/ policy[Arg] = "old" /\ policy' = [policy EXCEPT ![Arg] = "torn"] /\ Then(<<<<"rewrite", Arg>>>>)
       \/ (policy[Arg] = "torn" \/ source = "partial") /\ Stop /\ UNCHANGED policy
    /\ UNCHANGED <<archive, source, library>>

RewritePolicy ==
    /\ At("rewrite")
    /\ policy' = [policy EXCEPT ![Arg] = "new"]
    /\ Then(<<>>)
    /\ UNCHANGED <<archive, source, library>>

\* The build directory is removed first, so nothing of an earlier build stays.
\* What is missing from a partial tree may or may not be needed.
BuildKeystone ==
    /\ At("build")
    /\ Then(<<>>) \/ (source = "partial" /\ Stop)
    /\ UNCHANGED keystone

CopyLibrary ==
    /\ At("copy")
    /\ library' = "partial"
    /\ Then(<<<<"copied", 0>>>>)
    /\ UNCHANGED <<archive, source, policy>>

LibraryCopied ==
    /\ At("copied")
    /\ library' = "whole"
    /\ Then(<<>>)
    /\ UNCHANGED <<archive, source, policy>>

KeystoneStep ==
    \/ Bootstrap \/ FindSource \/ Download \/ Downloaded \/ Untar \/ Untarred
    \/ EditPolicy \/ RewritePolicy \/ BuildKeystone \/ CopyLibrary \/ LibraryCopied
=============================================================================
