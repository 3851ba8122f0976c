---------------------------- MODULE MCAgentTurn ----------------------------
(* Instances of AgentTurn for TLC. *)
EXTENDS AgentTurn

CONSTANTS t1, t2

NoFile == [state |-> "absent", providers |-> {}, preferred |-> {}]
Good(ps, tags) == [state |-> "good", providers |-> ps, preferred |-> tags]

\* A first file that walks one of its two providers, the namesake of the session's;
\* a second file alone, whose provider is no namesake; two entries to walk, once
\* there are bytes that pass for a key; a bad file that hides a good one; tags that
\* name nothing.
MCConfig == {[primary |-> Good({"synthetic", "env"}, {"env"}), alternate |-> NoFile],
             [primary |-> NoFile, alternate |-> Good({"synthetic"}, {"synthetic"})],
             [primary |-> NoFile, alternate |-> Good({"synthetic", "keyless"}, {"synthetic", "keyless"})],
             [primary |-> [NoFile EXCEPT !.state = "bad"], alternate |-> Good({"env"}, {"env"})],
             [primary |-> Good({"env"}, {"env", "undeclared"}), alternate |-> NoFile]}

Agent(tools, limit) == [route |-> "agent", tools |-> tools, limit |-> limit, wellFormed |-> TRUE]
Once == [route |-> "dispatch", tools |-> {}, limit |-> 0, wellFormed |-> TRUE]

Shell == Agent({"shell.exec"}, 2)
Edits == Agent({"git.status", "fs.write", "fs.delete"}, 1)
Unknown == Agent({"unknown"}, 1)
Models == [Once EXCEPT !.route = "models"]
Bodies == {Shell, Edits, Unknown, Once, Models}

\* The second request is a dispatch, which may ask what the first asked.
BodiesOf2 == t1 :> Bodies @@ t2 :> {Once}

\* One turn is asked for a tool it may not use; what the text of a dispatch says
\* makes no difference.
MCReply == {<<>>, <<Malformed, "shell.exec">>, <<"git.status", "shell.exec">>,
            <<"fs.write", "fs.delete">>, Broken}
MCRepliesTo == [b \in Bodies |->
    CASE b = Shell -> {<<Malformed, "shell.exec">>}
      [] b = Edits -> {<<>>, <<"git.status", "shell.exec">>, <<"fs.write", "fs.delete">>, Broken}
      [] OTHER -> {<<>>}]
Untracked == {[there |-> TRUE, tracked |-> FALSE]}
Tracked == {[there |-> TRUE, tracked |-> TRUE]}
=============================================================================
