------------------------------- MODULE Config -------------------------------
(***************************************************************************)
(* .git-sfs/config.toml (domain/config): two parsers read it, strict TOML  *)
(* and the line scanner of earlier versions, and the file is refused if    *)
(* they disagree on a string that both of them find.                       *)
(*                                                                         *)
(* What is written for a field is the pair of what the two parsers make of *)
(* it: "x#y" is x to the scanner, an unquoted word is no TOML at all.  The *)
(* sections of the remotes are read twice as well, because the parsers may *)
(* not even agree on their names: in [remotes."x"] the scanner keeps the   *)
(* quotes.                                                                 *)
(***************************************************************************)
EXTENDS Integers, FiniteSets

CONSTANTS U32Max,     \* the largest n_jobs the program can hold
          Absent,     \* what a parser makes of a field that is not there
          Unreadable, \* what it makes of one that is against its grammar
          Mistyped    \* what TOML makes of a value of another type than the field's

ASSUME ConfigAssumption == U32Max \in Nat \ {0} /\ Cardinality({Absent, Unreadable, Mistyped}) = 3

Written(compat, strict) == [compat |-> compat, strict |-> strict]
Missing == Written(Absent, Absent)
Plain(v) == Written(v, v)

RemoteFields == {"backend", "path", "config"}
Strings == {"algorithm", "min_rclone_version", "min_git_sfs_version"}
Scalars == Strings \cup {"version", "n_jobs", "retry_max"}
RemotesOf(f, reading) == f.remotes[reading]

-----------------------------------------------------------------------------
(* The two parsers: "ok" or why not. *)

IsToml(f) ==
    /\ \A x \in Scalars : f[x].strict # Unreadable
    /\ \A n \in DOMAIN RemotesOf(f, "strict"), x \in RemoteFields :
          RemotesOf(f, "strict")[n][x] # Unreadable

\* What serde refuses it reports as toml::from_str reports a syntax error.
IsTyped(f) ==
    /\ \A x \in Scalars : f[x].strict # Mistyped
    /\ f.version.strict # Absent
    /\ f.n_jobs.strict # Absent => f.n_jobs.strict \in 0..U32Max
    /\ \A n \in DOMAIN RemotesOf(f, "strict"), x \in RemoteFields :
          RemotesOf(f, "strict")[n][x] # Mistyped

\* parse_raw, which looks for a cache and for a remote without a name before the types, and
\* build_config.
Strict(f) ==
    IF ~IsToml(f) THEN "toml"
    ELSE IF f.cache \/ "" \in DOMAIN RemotesOf(f, "strict") THEN "semantic"
    ELSE IF ~IsTyped(f) THEN "toml"
    ELSE IF /\ f.version.strict = 1
            /\ f.algorithm.strict \in {Absent, "sha256"}
            /\ \A n \in DOMAIN RemotesOf(f, "strict") :
                  RemotesOf(f, "strict")[n].backend \notin {Absent, ""}
         THEN "ok" ELSE "semantic"

\* scan: numbers are i64, a backend may be empty.
Scan(f) ==
    IF /\ ~f.cache
       /\ \A x \in Scalars : f[x].compat # Unreadable
       /\ f.version.compat = 1
       /\ f.n_jobs.compat # Absent => f.n_jobs.compat >= 0
       /\ f.algorithm.compat \in {Absent, "sha256"}
       /\ \A n \in DOMAIN RemotesOf(f, "compat") : n # "" /\ RemotesOf(f, "compat")[n].backend # Absent
    THEN "ok" ELSE "invalid"

Differ(a, b) == a # b /\ Absent \notin {a, b}

\* find_divergence: only strings that both readings have, of remotes whose name both have.
SettingsDiffer(f) == \E x \in Strings : Differ(f[x].compat, f[x].strict)
RemotesDiffer(f, fields) ==
    \E n \in DOMAIN RemotesOf(f, "compat") \cap DOMAIN RemotesOf(f, "strict"), x \in fields :
       Differ(RemotesOf(f, "compat")[n][x], RemotesOf(f, "strict")[n][x])

\* Bug: the remotes' paths are not compared.
FindDivergenceForgetsPath(f) == SettingsDiffer(f) \/ RemotesDiffer(f, RemoteFields \ {"path"})

FindDivergence(f) == SettingsDiffer(f) \/ RemotesDiffer(f, RemoteFields)

-----------------------------------------------------------------------------
Refused(why) == [status |-> why]

\* What a parser hands to the rest of the program: build_config of the strict reading, or
\* compat_to_config of the scanner's.
Accepted(f, reading) ==
    [status  |-> "ok",
     sfs     |-> f.min_git_sfs_version[reading],
     rclone  |-> f.min_rclone_version[reading],
     remotes |-> RemotesOf(f, reading)]

\* compat_to_config: the number of jobs is forced into 32 bits.
FromScan(f) == IF f.n_jobs.compat # Absent /\ f.n_jobs.compat > U32Max
               THEN Refused("panic") ELSE Accepted(f, "compat")

\* parse_and_validate.
ParseAndValidate(f) ==
    CASE Scan(f) = "ok" /\ Strict(f) = "ok" ->
            IF FindDivergence(f) THEN Refused("ambiguous") ELSE Accepted(f, "strict")
      [] Scan(f) = "ok" /\ Strict(f) = "toml" -> FromScan(f)
      [] OTHER -> Refused("invalid")
=============================================================================
