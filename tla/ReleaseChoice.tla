--------------------------- MODULE ReleaseChoice ---------------------------
(***************************************************************************)
(* Which release is newer, and which of its files would be installed: the  *)
(* pure half of app/updater.py.  The version of a tag is three numbers,    *)
(* those left out being zero, and what follows a dash or a plus, letter by *)
(* letter; a tag may also be blank, or no version at all.                  *)
(***************************************************************************)
EXTENDS Integers, Sequences, FiniteSets, FiniteSetsExt

\* A tag: blank, no version at all, or a version.
TagOK(tag) ==
  /\ tag.form \in {"blank", "odd", "version"} /\ tag.rest \in Seq(Nat)
  /\ tag.form = "version" => tag.numbers \in [1..3 -> Nat]

\* Texts and tuples compare at the first place where they differ, and a longer one is
\* later than its beginning.
Before(s, t) ==
  \/ Len(s) < Len(t) /\ SubSeq(t, 1, Len(s)) = s
  \/ \E i \in (DOMAIN s) \cap (DOMAIN t) :
       s[i] < t[i] /\ SubSeq(s, 1, i - 1) = SubSeq(t, 1, i - 1)

\* Faulty: with a suffix it is the later one.
ParseSuffixLast(tag) ==
  CASE tag.form = "blank" -> [key |-> <<-1, 0, 0, 1>>, rest |-> <<>>]
    [] tag.form = "odd"   -> [key |-> <<0, 0, 0, 1>>, rest |-> tag.rest]
    [] OTHER -> [key |-> tag.numbers \o <<IF tag.rest = <<>> THEN 0 ELSE 1>>, rest |-> tag.rest]

\* parse_version: a release is later than what is published before it.
ParseVersion(tag) ==
  CASE tag.form = "blank" -> [key |-> <<-1, 0, 0, 1>>, rest |-> <<>>]
    [] tag.form = "odd"   -> [key |-> <<0, 0, 0, 1>>, rest |-> tag.rest]
    [] OTHER -> [key |-> tag.numbers \o <<IF tag.rest = <<>> THEN 1 ELSE 0>>, rest |-> tag.rest]

IsNewer(candidate, current) ==
  LET a == ParseVersion(candidate)
      b == ParseVersion(current)
  IN Before(b.key, a.key) \/ (a.key = b.key /\ Before(b.rest, a.rest))

\* _pick_asset: an executable of our own name, or else the first one, or else the first
\* archive; 0 if there is none.
PickAsset(assets) ==
  LET Of(kinds) == {i \in DOMAIN assets : assets[i] \in kinds}
  IN CASE Of({"own"}) # {} -> Min(Of({"own"}))
       [] Of({"own"}) = {} /\ Of({"exe"}) # {} -> Min(Of({"exe"}))
       [] Of({"own", "exe"}) = {} /\ Of({"zip"}) # {} -> Min(Of({"zip"}))
       [] OTHER -> 0

\* _check_release: what is offered is newer and has something to install.
Offered(tag, current, assets) == IsNewer(tag, current) /\ PickAsset(assets) # 0

(***************************************************************************)
(* Properties                                                              *)
(***************************************************************************)

\* One version's numbers are above another's.
Above(a, b) ==
  \E i \in 1..3 : a.numbers[i] > b.numbers[i] /\ \A j \in 1..(i - 1) : a.numbers[j] = b.numbers[j]

\* Between two versions the order is that of their numbers, and of what is published
\* under the same ones the release comes last; between any two tags, versions or not,
\* at most one is newer, so that an update does not lead back (is_newer).  Suffixes are
\* compared as texts: the tenth beta is older than the ninth.
OrderAgrees(a, b) ==
  /\ ~(IsNewer(a, b) /\ IsNewer(b, a))
  /\ IsNewer(a, b) \/ IsNewer(b, a) \/ ParseVersion(a) = ParseVersion(b)
  /\ a.form = "version" /\ b.form = "version" =>
       /\ Above(a, b) => IsNewer(a, b)
       /\ a.numbers = b.numbers /\ a.rest = <<>> /\ b.rest # <<>> => IsNewer(a, b)

\* A step of three: what is newer than something newer is newer.
NewerIsTransitive(a, b, c) == IsNewer(a, b) /\ IsNewer(b, c) => IsNewer(a, c)

\* What is offered can be put in place of the program unless the release has nothing
\* that can, and is the program's own file if that is among its assets.
AssetAgrees(assets) ==
  LET n == PickAsset(assets)
      runnable == {i \in DOMAIN assets : assets[i] \in {"own", "exe"}}
  IN /\ n = 0 <=> \A i \in DOMAIN assets : assets[i] \notin {"own", "exe", "zip"}
     /\ runnable # {} => n \in runnable
     /\ (\E i \in DOMAIN assets : assets[i] = "own") => assets[n] = "own"
=============================================================================
