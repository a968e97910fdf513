--------------------------------- MODULE Nest ---------------------------------
(***************************************************************************)
(* The package registry of openhawk-nest: two tables of a database that    *)
(* several processes open.  A text is a sequence of characters; a package  *)
(* is installed with a statement that counts and a statement that inserts. *)
(***************************************************************************)
EXTENDS Naturals, Sequences, FiniteSets, Functions, Filters

CONSTANTS
    Clients,         \* processes with a NestClient
    PackageNames, Versions,
    ManifestLines,   \* lines of an Agent_Manifest.toml: [key, text, quote, comment]
    MaxLines,        \* bound: lines of a manifest
    MaxCalls,        \* bound: calls of install and of add_to_index
    None

VARIABLES
    installed_packages,  \* name -> [version, by], the rows
    package_index,       \* name -> version, the rows
    call,                \* client -> the install it is in
    done,                \* history: the installs that returned Ok
    manifest,            \* Agent_Manifest.toml of the package to be published: [file, lines]
    calls

vars == <<installed_packages, package_index, call, done, manifest, calls>>

Idle == [pc |-> "idle", name |-> None, version |-> None]

(* init_schema *)
Init ==
    /\ installed_packages = <<>> /\ package_index = <<>> /\ call = [c \in Clients |-> Idle]
    /\ done = {} /\ manifest = [file |-> "missing", lines |-> <<>>] /\ calls = 0

With(table, n, row) == [m \in DOMAIN table \cup {n} |-> IF m = n THEN row ELSE table[m]]

--------------------------------------------------------------------------------
(* A signature is the pair it was made from. *)
make_signature(name, version) == <<name, version>>
verify_signature(name, version, signature) == signature = make_signature(name, version)

(* Bounds: a behaviour prepares a package or makes calls, one after another. *)
Called == calls < MaxCalls /\ manifest.file = "missing" /\ calls' = calls + 1

(* install: a signature that does not verify ends it. *)
Install(c, name, version, signature) ==
    /\ call[c] = Idle /\ Called
    /\ call' = IF verify_signature(name, version, signature)
               THEN [call EXCEPT ![c] = [pc |-> "count", name |-> name, version |-> version]]
               ELSE call
    /\ UNCHANGED <<installed_packages, package_index, done, manifest>>

(* SELECT COUNT: AlreadyInstalled ends it. *)
Count(c) ==
    /\ call[c].pc = "count"
    /\ call' = [call EXCEPT ![c] = IF @.name \in DOMAIN installed_packages THEN Idle ELSE [@ EXCEPT !.pc = "insert"]]
    /\ UNCHANGED <<installed_packages, package_index, done, manifest, calls>>

(* Mutant: the row that another process has put there is replaced. *)
Insert_Replaces(c) ==
    /\ call[c].pc = "insert"
    /\ installed_packages' = With(installed_packages, call[c].name, [version |-> call[c].version, by |-> c])
    /\ done' = done \cup {[name |-> call[c].name, version |-> call[c].version, by |-> c]}
    /\ call' = [call EXCEPT ![c] = Idle]
    /\ UNCHANGED <<package_index, manifest, calls>>

(* INSERT: the name is the primary key, a second row is an error. *)
Insert(c) ==
    /\ call[c].pc = "insert"
    /\ LET n == call[c].name
       IN  IF n \in DOMAIN installed_packages THEN UNCHANGED <<installed_packages, done>>
           ELSE /\ installed_packages' = With(installed_packages, n, [version |-> call[c].version, by |-> c])
                /\ done' = done \cup {[name |-> call[c].name, version |-> call[c].version, by |-> c]}
    /\ call' = [call EXCEPT ![c] = Idle]
    /\ UNCHANGED <<package_index, manifest, calls>>

(* INSERT OR REPLACE *)
add_to_index(name, version) ==
    /\ Called
    /\ package_index' = With(package_index, name, version)
    /\ UNCHANGED <<installed_packages, call, done, manifest>>

(* The author of a package writes its manifest, a line at a time. *)
WriteLine(l) ==
    /\ Len(manifest.lines) < MaxLines /\ calls = 0 /\ manifest.file # "unreadable"
    /\ manifest' = [file |-> "text", lines |-> Append(manifest.lines, l)]
    /\ UNCHANGED <<installed_packages, package_index, call, done, calls>>

(* It may become a file that read_to_string refuses. *)
Spoil ==
    /\ manifest.file = "text"
    /\ manifest' = [manifest EXCEPT !.file = "unreadable"]
    /\ UNCHANGED <<installed_packages, package_index, call, done, calls>>

Next ==
    \/ \E c \in Clients :
          \/ \E n \in PackageNames, v \in Versions : \E s \in {n, None} : Install(c, n, v, <<s, v>>)
          \/ Count(c) \/ Insert(c)
    \/ \E n \in PackageNames, v \in Versions : add_to_index(n, v)
    \/ \E l \in ManifestLines : WriteLine(l)
    \/ Spoil
Spec == Init /\ [][Next]_vars

--------------------------------------------------------------------------------
(* search: SQLite lowers only the letters it knows, the query is lowered in full;
   an underscore of the query stands for any character. *)
lower(s) == [i \in DOMAIN s |-> IF s[i] = "A" THEN "a" ELSE s[i]]
to_lowercase(s) == [i \in DOMAIN s |-> CASE s[i] = "A" -> "a" [] s[i] = "E^" -> "e^" [] OTHER -> s[i]]
LikeAnywhere(s, q) ==
    \E at \in 0..(Len(s) - Len(q)) : \A j \in DOMAIN q : q[j] = "_" \/ q[j] = s[at + j]
search(query) == {n \in DOMAIN package_index : LikeAnywhere(lower(n), to_lowercase(query))}

(* extract_version_from_manifest takes the first line that begins with "version"
   and has a value, in whatever section.  Blanks and double quotes around the value
   go, single quotes and a comment behind it stay. *)
VersionLike == {"version", "versions"}
Empty == "empty"
Alone(l) == l.quote # "single" /\ ~l.comment
extract_version_from_manifest(src) ==
    LET given == {l \in Range(src) : l.key \in VersionLike /\ (Alone(l) => l.text # Empty)}
        lines == Only(src, given)
    IN  IF lines = <<>> THEN None ELSE [text |-> Head(lines).text, alone |-> Alone(Head(lines))]

is_valid_semver(version) == version.alone /\ version.text \in {"1.0.0", "2.0.0"}

(* publish: InvalidPackage without a manifest or a version, an I/O error when it
   cannot be read, InvalidVersion. *)
publish(m) ==
    /\ m.file = "text"
    /\ LET version == extract_version_from_manifest(m.lines) IN version # None /\ is_valid_semver(version)

(* Of all the installs of a name one succeeds, whoever races, and its row stays;
   no row is there without one. *)
InstalledOnce ==
    /\ \A a, b \in done : a.name = b.name => a = b
    /\ \A a \in done : a.name \in DOMAIN installed_packages /\ installed_packages[a.name] = [version |-> a.version, by |-> a.by]
    /\ \A n \in DOMAIN installed_packages : \E a \in done : a.name = n

(* A listing is found by every part of its name, unless that part has a capital
   letter that only to_lowercase knows. *)
SearchFinds ==
    \A n \in DOMAIN package_index : \A i, j \in 1..Len(n) :
        i <= j /\ "E^" \notin Range(SubSeq(n, i, j)) => n \in search(SubSeq(n, i, j))

(* When one line of a manifest reads like a version, the package is accepted for
   no other version, and it is accepted for that one if the file can be read and
   the line says it without single quotes and without a comment. *)
PublishedVersion ==
    \A l \in Range(manifest.lines) :
        l.key = "version" /\ Cardinality({i \in DOMAIN manifest.lines : manifest.lines[i].key \in VersionLike}) = 1
            => /\ publish(manifest) => l.text \in {"1.0.0", "2.0.0"}
               /\ manifest.file = "text" /\ Alone(l) /\ l.text \in {"1.0.0", "2.0.0"} => publish(manifest)
================================================================================
