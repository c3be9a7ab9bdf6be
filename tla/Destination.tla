---------------------------- MODULE Destination ----------------------------
(***************************************************************************)
(* How one HTTP request gets a destination on the NAS: CheckPath of        *)
(* internal/nas/path.go as Validate and Mkdir of nas.go run it, one call   *)
(* to the NAS at a time, while others make and remove directories and      *)
(* links there.                                                            *)
(*                                                                         *)
(* A path is the sequence of its components, << >> is "/".  A link names   *)
(* the end of its chain, as RealPath follows a chain in one call, and a    *)
(* call to the NAS fails because something is missing or the connection    *)
(* breaks; a directory that may not be searched is left out.               *)
(***************************************************************************)
EXTENDS Integers, Sequences, FiniteSets, SequencesExt

CONSTANTS
    Inputs,      \* paths a client sends: [absolute : BOOLEAN, parts : sequence of components]
    RootInputs,  \* what allowed_dest_roots lists, written the same way
    Paths,       \* bound: the paths at which something may be made on the NAS
    FirstNas,    \* bound: the states the NAS may be in when the request comes
    MaxMoves,    \* bound: what others make or remove meanwhile
    MaxBreaks,   \* bound: connections that break
    Nowhere      \* no place

Up(p) == IF p = << >> THEN << >> ELSE Front(p)

ASSUME PathsAssumption ==
    /\ Inputs \cup RootInputs \subseteq [absolute : BOOLEAN, parts : Seq(STRING)]
    /\ Paths \subseteq Seq(STRING) /\ Nowhere \notin Seq(STRING)
ASSUME NasAssumption == \A n \in FirstNas :
    /\ << >> \in n.dirs /\ n.dirs \subseteq Paths \cup {<< >>}
    /\ DOMAIN n.links \subseteq Paths \ n.dirs /\ \A l \in DOMAIN n.links : n.links[l] \in Paths
    /\ \A p \in (n.dirs \cup DOMAIN n.links) \ {<< >>} : Up(p) \in n.dirs
ASSUME MovesAssumption == MaxMoves \in Nat /\ MaxBreaks \in Nat

VARIABLES
    dirs,        \* the directories on the NAS
    links,       \* [some paths -> paths] its links
    relinked,    \* history: since the request came a link was made, one leads somewhere
                 \* again, or one outside the roots was removed
    stage,       \* "idle", "resolve", "ancestor", "accepted", "rejected"
    clean,       \* the path CheckPath looks at, Nowhere for one that is not absolute
    cur,         \* resolveAncestor's place
    attempt,     \* do's loop counter
    dest,        \* the path Validate returns, Nowhere before
    moves, breaks

nas        == <<dirs, links>>
validation == <<stage, clean, cur, attempt, dest>>
nasBounds  == <<moves, breaks>>

-----------------------------------------------------------------------------
(* normalise and contained. *)

(* path.Clean of an absolute path, one component after the other. *)
Clean(parts) ==
    LET to[k \in 0..Len(parts)] ==
          IF k = 0 THEN << >>
          ELSE CASE parts[k] = "."  -> to[k - 1]
                 [] parts[k] = ".." -> Up(to[k - 1])
                 [] OTHER           -> Append(to[k - 1], parts[k])
    IN  to[Len(parts)]

(* cleanRoots: relative roots are ignored, not trusted. *)
Roots == {Clean(r.parts) : r \in {x \in RootInputs : x.absolute}}

Contained(p) == \E r \in Roots : IsPrefix(r, p)

-----------------------------------------------------------------------------
(* The NAS. *)

(* Where the component n of the directory d leads on a NAS with the directories *)
(* D and the links L.                                                          *)
Enter(D, L, d, n) ==
    LET q == Append(d, n)
    IN  IF d = Nowhere THEN Nowhere
        ELSE IF q \in DOMAIN L /\ L[q] \in D THEN L[q]
        ELSE IF q \in D THEN q ELSE Nowhere

(* Where the first k components of p lead. *)
Walk(D, L, p) ==
    LET at[k \in 0..Len(p)] == IF k = 0 THEN << >> ELSE Enter(D, L, at[k - 1], p[k])
    IN  at

(* What a path means to mkdir -p: the rest of it is made where the longest      *)
(* prefix that exists leads to, unless a link to nothing is in the way.         *)
Leads(D, L, p) ==
    LET at == Walk(D, L, p)
        n  == CHOOSE k \in 0..Len(p) : at[k] # Nowhere /\ \A i \in k + 1..Len(p) : at[i] = Nowhere
    IN  IF n < Len(p) /\ Append(at[n], p[n + 1]) \in DOMAIN L THEN Nowhere
        ELSE at[n] \o SubSeq(p, n + 1, Len(p))

(* sftp.Client.RealPath, Nowhere for an error. *)
RealPath(p) == Walk(dirs, links, p)[Len(p)]

Meant(p) == Leads(dirs, links, p)

Inside(p) == p = Nowhere \/ Contained(p)

(* Others work on the NAS. *)
Moves == moves < MaxMoves /\ moves' = moves + 1 /\ UNCHANGED <<validation, breaks>>

OthersMakeDir ==
    /\ Moves
    /\ \E p \in Paths \ (dirs \cup DOMAIN links) :
         /\ Up(p) \in dirs
         /\ dirs' = dirs \cup {p}
         /\ relinked' = (relinked \/ \E l \in DOMAIN links : links[l] = p)
    /\ UNCHANGED links

OthersRemove ==
    /\ Moves
    /\ \/ /\ \E p \in dirs \ {<< >>} :
               /\ \A q \in dirs \cup DOMAIN links : q # p => Up(q) # p
               /\ dirs' = dirs \ {p}
          /\ UNCHANGED <<links, relinked>>
       \/ /\ \E p \in DOMAIN links :
               /\ links' = [q \in DOMAIN links \ {p} |-> links[q]]
               /\ relinked' = (relinked \/ ~Contained(p))
          /\ UNCHANGED dirs

OthersLink ==
    /\ Moves
    /\ \E p \in Paths \ (dirs \cup DOMAIN links), t \in Paths :
         /\ Up(p) \in dirs
         /\ links' = [q \in DOMAIN links \cup {p} |-> IF q = p THEN t ELSE links[q]]
    /\ relinked' = TRUE
    /\ UNCHANGED dirs

Others == OthersMakeDir \/ OthersRemove \/ OthersLink

-----------------------------------------------------------------------------
(* Validate. *)

Decides(s, d) ==
    /\ stage' = s /\ dest' = d
    /\ UNCHANGED <<clean, cur, attempt>>

OnlyValidation == UNCHANGED <<nas, relinked, nasBounds>>

(* CheckPath without a resolver: what is not absolute, or not even by name      *)
(* inside, is refused before the NAS is asked.                                  *)
ValidateBegins(p) ==
    /\ stage = "idle"
    /\ clean' = IF p.absolute THEN Clean(p.parts) ELSE Nowhere
    /\ cur' = clean'
    /\ stage' = IF p.absolute /\ Contained(clean') THEN "resolve" ELSE "rejected"
    /\ UNCHANGED <<attempt, dest>>
    /\ OnlyValidation

(* Seeded bug: the path is looked at before it is resolved only. *)
ResolveUnchecked ==
    /\ stage = "resolve"
    /\ LET r == RealPath(clean)
       IN  IF r = Nowhere
           THEN stage' = "ancestor" /\ cur' = Up(clean) /\ UNCHANGED <<clean, attempt, dest>>
           ELSE Decides("accepted", r)
    /\ OnlyValidation

(* Seeded bug: the resolved path is returned beside the error. *)
ResolveReturnsBoth ==
    /\ stage = "resolve"
    /\ LET r == RealPath(clean)
       IN  IF r = Nowhere
           THEN stage' = "ancestor" /\ cur' = Up(clean) /\ UNCHANGED <<clean, attempt, dest>>
           ELSE Decides(IF Contained(r) THEN "accepted" ELSE "rejected", r)
    /\ OnlyValidation

(* The path is resolved: it exists, and is looked at once more, or it does not. *)
Resolve ==
    /\ stage = "resolve"
    /\ LET r == RealPath(clean)
       IN  IF r = Nowhere
           THEN stage' = "ancestor" /\ cur' = Up(clean) /\ UNCHANGED <<clean, attempt, dest>>
           ELSE IF Contained(r) THEN Decides("accepted", r) ELSE Decides("rejected", Nowhere)
    /\ OnlyValidation

(* Seeded bug: the nearest ancestor that exists is not looked at. *)
AncestorUnchecked ==
    /\ stage = "ancestor"
    /\ IF RealPath(cur) # Nowhere THEN Decides("accepted", clean)
       ELSE cur' = Up(cur) /\ UNCHANGED <<stage, clean, attempt, dest>>
    /\ OnlyValidation

(* Seeded bug: only the parent is asked for. *)
AncestorGivesUp ==
    /\ stage = "ancestor"
    /\ LET r == RealPath(cur)
       IN  IF r # Nowhere /\ Contained(r) THEN Decides("accepted", clean) ELSE Decides("rejected", Nowhere)
    /\ OnlyValidation

(* resolveAncestor, one step up the path; "/" always resolves. *)
Ancestor ==
    /\ stage = "ancestor"
    /\ LET r == RealPath(cur)
       IN  IF r = Nowhere THEN cur' = Up(cur) /\ UNCHANGED <<stage, clean, attempt, dest>>
           ELSE IF Contained(r) THEN Decides("accepted", clean) ELSE Decides("rejected", Nowhere)
    /\ OnlyValidation

(* Every further call fails as well, up to "/", and do starts once more. *)
ValidateBreaks ==
    /\ stage \in {"resolve", "ancestor"}
    /\ breaks < MaxBreaks /\ breaks' = breaks + 1
    /\ IF attempt = 0
       THEN /\ stage' = "resolve" /\ cur' = clean /\ attempt' = 1
            /\ UNCHANGED <<clean, dest>>
       ELSE Decides("rejected", Nowhere)
    /\ UNCHANGED <<nas, relinked, moves>>

Validate == Resolve \/ Ancestor \/ ValidateBreaks

NasInit ==
    /\ \E n \in FirstNas : dirs = n.dirs /\ links = n.links
    /\ relinked = FALSE
    /\ stage = "idle" /\ clean = << >> /\ cur = << >> /\ attempt = 0 /\ dest = Nowhere
    /\ moves = 0 /\ breaks = 0

-----------------------------------------------------------------------------
(* A property. *)

(* A path inside an existing root, with no link on the way, is not refused when  *)
(* nobody interferes, whether it exists or not, also if the connection breaks    *)
(* once (nas.go:143).                                                            *)
PlainIsAccepted ==
    stage = "rejected" /\ clean # Nowhere /\ moves = 0 /\ breaks < 2 =>
        \/ ~Contained(clean)
        \/ \E k \in 1..Len(clean) : SubSeq(clean, 1, k) \in DOMAIN links
        \/ \A r \in Roots : IsPrefix(r, clean) => r \notin dirs
=============================================================================
