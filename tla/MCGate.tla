------------------------------- MODULE MCGate -------------------------------
(* Two updates and three releases of each program where everything else is in order; every
   single thing that may be out of order where nothing is left to update. *)
EXTENDS Gate, TLC

CONSTANTS u1, u2

MCUpdaters == {u1, u2}
MCNewest == [q \in Programs |-> IF q = "git-sfs" THEN 3 ELSE 1]
MCNames == {"default", "backup"}
\* The scanner's name of [remotes."default"], with its quotes: all that matters is that it
\* is another one, so that it can be one of the two.
InQuotes == "backup"

Good == [repository |-> TRUE, symlinks |-> TRUE, cache |-> "good", elsewhere |-> 0,
         conf |-> TRUE, remote |-> [n \in MCNames |-> "good"], locks |-> "free", purges |-> TRUE,
         scope |-> "missing"]
MCPlaces ==
    {Good, [Good EXCEPT !.repository = FALSE], [Good EXCEPT !.symlinks = FALSE],
     [Good EXCEPT !.elsewhere = 1], [Good EXCEPT !.conf = FALSE], [Good EXCEPT !.purges = FALSE]}
    \cup {[Good EXCEPT !.locks = l] : l \in Locks}
    \cup {[Good EXCEPT !.scope = c] : c \in Scopes}
    \cup {[Good EXCEPT !.cache = c] : c \in Caches}
    \cup {[Good EXCEPT !.remote[n] = a] : n \in MCNames, a \in Answers}

Remote == [backend |-> "s3", path |-> "data", config |-> Absent]
Both(r) == [compat |-> r, strict |-> r]
Text == [version |-> Plain(1), n_jobs |-> Missing, retry_max |-> Missing, cache |-> FALSE,
         algorithm |-> Plain("sha256"), min_rclone_version |-> Missing,
         min_git_sfs_version |-> Missing, remotes |-> Both([n \in {"default"} |-> Remote])]
\* An unquoted word, and a value in quotes, or of another type, that the scanner takes.
Bare(v) == Written(v, Unreadable)
Other(v) == Written(v, Mistyped)
\* Field x of the remote as w.
With(t, x, w) == [t EXCEPT !.remotes = [reading \in {"compat", "strict"} |->
                     [n \in DOMAIN @[reading] |-> [@[reading][n] EXCEPT ![x] = w[reading]]]]]
\* The section's name in quotes.
Quoted(t) == [t EXCEPT !.remotes.compat = [n \in {InQuotes} |-> @["default"]]]
Floor == [Text EXCEPT !.min_git_sfs_version = Plain(1), !.min_rclone_version = Plain(1)]
TwoRemotes == [Text EXCEPT !.remotes = Both([n \in MCNames |-> Remote])]
OwnConf == With(Text, "config", Plain("rclone.conf"))
MCTexts ==
    {Text, Floor, TwoRemotes, OwnConf, [Text EXCEPT !.cache = TRUE]}
    \cup {[Text EXCEPT !.version = v] : v \in {Missing, Plain(2), Other(1)}}
    \cup {[Text EXCEPT !.n_jobs = v] : v \in {Plain(1), Plain(-1), Plain(U32Max + 1), Other(1)}}
    \cup {[Text EXCEPT !.retry_max = v] : v \in {Plain(0), Plain(-1), Written(Unreadable, Unreadable)}}
    \cup {[Text EXCEPT !.algorithm = v] : v \in {Missing, Plain("md5"), Written("sha256", "sha256#2")}}
    \cup {[Text EXCEPT !.min_rclone_version = v] : v \in {Plain(2), Written(1, 2), Plain(-1)}}
    \cup {[Text EXCEPT !.min_git_sfs_version = v] : v \in {Plain(1), Plain(-1), Bare(1), Written(1, Absent)}}
    \cup {[Text EXCEPT !.remotes = Both([n \in {"backup"} |-> Remote])]}
    \cup {With(Text, "path", w) : w \in {Missing, Bare("data"), Other("data"), Written("data", "data#2"),
                                         Written("data", Absent)}}
    \cup {With(Text, "backend", w) : w \in {Missing, Plain(""), Written("s3", "s3#2")}}
    \cup {Quoted(t) : t \in {Text, With(Text, "path", Bare("data")), With(Text, "path", Written("data", "data#2"))}}
    \* [remotes.""], alone and where TOML cannot make anything of another line; [remotes.],
    \* which is against the grammar and no name to the scanner either.
    \cup {Quoted([Text EXCEPT !.remotes.strict = [n \in {""} |-> Remote], !.n_jobs = v]) :
             v \in {Missing, Other(1), Bare(1)}}
    \cup {[Text EXCEPT !.remotes.compat = [n \in {""} |-> Remote], !.n_jobs = Bare(1)]}

Settled == /\ published = Newest
           /\ \A q \in Programs : binary[q].version \in {0, Newest[q]}
Several == {Floor, TwoRemotes, OwnConf}
MCInit == /\ Init
          /\ \/ Settled /\ (place = Good \/ file \in Several)
             \/ place = Good /\ file = Floor /\ published["git-sfs"] = 2
MCSpec == MCInit /\ [][Next]_vars

\* A command changes nothing, so that no step after it need be explored.  Updates run
\* where everything else is in order; beside doctor once all is published; and together, over
\* git-sfs, where no doctor has run.
Bound == /\ command = Nothing
         /\ LET running == {u \in Updaters : pc[u] # "idle"} IN
            \/ running = {}
            \/ /\ place = Good /\ file = Floor /\ Cardinality(running) = 1
               /\ doctor = Idle \/ published = Newest
            \/ place = Good /\ file = Floor /\ doctor = Idle /\ \A u \in Updaters : what[u] = "git-sfs"
Symmetry == Permutations(Updaters)
=============================================================================
