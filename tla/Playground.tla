------------------------------- MODULE Playground ------------------------------
(***************************************************************************)
(* The playground generates random nouns.  Of each kind of trait one may   *)
(* be chosen instead, by its index among the images; an image uploaded     *)
(* becomes the first of its kind, and everything behind it moves.  Files   *)
(* are read in the background, and errors are shown for a while.           *)
(***************************************************************************)
EXTENDS Integers, Sequences

CONSTANTS
  Art,         \* the images that come with the app: kind -> sequence of names
  Pictures,    \* names of files that hold a 32x32 PNG the encoder accepts
  Garbage,     \* names of files that do not
  DefaultKind, \* "heads"
  MaxFiles     \* bound: files chosen

ASSUME PlaygroundConstants ==
  /\ DefaultKind \in DOMAIN Art
  /\ Art \in [DOMAIN Art -> Seq(STRING)] /\ \A k \in DOMAIN Art : Len(Art[k]) > 0
  /\ Pictures \intersect Garbage = {} /\ MaxFiles \in Nat

VARIABLES
  images,         \* kind -> names, in the order of their index (which here starts at 0)
  modSeed,        \* kind -> the index a noun gets, or -1 for a random one
  selectIndexes,  \* kind -> the option shown, or -1 for "Random"
  loading,        \* the files being read
  filesChosen,
  pendingTrait,   \* the trait read: its name and kind, or none
  typeShown,      \* the kind its selector shows, which keeps it until there is no trait
  rereads,        \* whether a file was read while a trait was pending
  mark,           \* of the file's field: "valid", "invalid" or "none"
  errorTimers,    \* how many timers will remove a mark
  newest,         \* the noun generated last: kind -> name
  asked,          \* observed: what had been asked for then, "any" if nothing
  chosen          \* observed: what the visitor asks for now

Kinds == DOMAIN Art
NoTrait == [name |-> "", kind |-> DefaultKind]

traitVars == <<images, modSeed, selectIndexes, chosen>>
fileVars == <<loading, filesChosen, pendingTrait, typeShown, rereads, mark, errorTimers>>
playgroundVars == <<traitVars, fileVars, newest, asked>>

NamesOf(kind) == {images[kind][i] : i \in 1..Len(images[kind])}
ImageAt(kind, index) == IF index = -1 THEN "any" ELSE images[kind][index + 1]

PlaygroundInit ==
  /\ images = Art
  /\ modSeed = [k \in Kinds |-> -1] /\ selectIndexes = [k \in Kinds |-> -1]
  /\ loading = {} /\ filesChosen = 0
  /\ pendingTrait = NoTrait /\ typeShown = DefaultKind /\ rereads = FALSE
  /\ mark = "none" /\ errorTimers = 0
  /\ newest = [k \in Kinds |-> Art[k][1]]
  /\ asked = [k \in Kinds |-> "any"] /\ chosen = [k \in Kinds |-> "any"]

\* getRandomNounSeed, with the traits asked for in its place
generateNounSvg ==
  /\ newest' \in [Kinds -> UNION {NamesOf(k) : k \in Kinds}]
  /\ \A k \in Kinds : IF modSeed[k] = -1 THEN newest'[k] \in NamesOf(k)
                      ELSE newest'[k] = ImageAt(k, modSeed[k])
  /\ asked' = chosen
  /\ UNCHANGED <<traitVars, fileVars>>

\* an option was selected; -1 is "Random"
traitButtonHandler(kind, index) ==
  /\ modSeed' = [modSeed EXCEPT ![kind] = index]
  /\ selectIndexes' = [selectIndexes EXCEPT ![kind] = index]
  /\ chosen' = [chosen EXCEPT ![kind] = ImageAt(kind, index)]
  /\ UNCHANGED <<images, fileVars, newest, asked>>

\* a timer is cleared only if nothing was rendered since it was started, that is, if the
\* field was marked already, and waits for another timer
validateCustomTrait(file) ==
  /\ filesChosen < MaxFiles /\ file \notin loading
  /\ loading' = loading \union {file} /\ filesChosen' = filesChosen + 1
  /\ \/ errorTimers' = errorTimers
     \/ errorTimers > 1 /\ mark = "invalid" /\ errorTimers' = errorTimers - 1
  /\ UNCHANGED <<pendingTrait, typeShown, rereads, mark, traitVars, newest, asked>>

\* reader.onload of a picture: whatever was pending is replaced, as a head
setCustomTrait(file) ==
  /\ file \in loading \intersect Pictures
  /\ loading' = loading \ {file}
  /\ pendingTrait' = [name |-> file, kind |-> DefaultKind]
  /\ rereads' = (pendingTrait # NoTrait)
  /\ typeShown' = (IF pendingTrait = NoTrait THEN DefaultKind ELSE typeShown)
  /\ mark' = "valid"
  /\ UNCHANGED <<filesChosen, errorTimers, traitVars, newest, asked>>

\* what was pending before stays
setPendingTraitInvalid(file) ==
  /\ file \in loading \intersect Garbage
  /\ loading' = loading \ {file}
  /\ mark' = "invalid" /\ errorTimers' = errorTimers + 1
  /\ UNCHANGED <<filesChosen, pendingTrait, typeShown, rereads, traitVars, newest, asked>>

\* the timer does not look whether the mark is still the one it was started for
ErrorTimeout ==
  /\ errorTimers > 0 /\ errorTimers' = errorTimers - 1
  /\ mark' = "none"
  /\ UNCHANGED <<loading, filesChosen, pendingTrait, typeShown, rereads, traitVars, newest, asked>>

ChooseKind(kind) ==
  /\ pendingTrait # NoTrait /\ kind # typeShown
  /\ pendingTrait' = [pendingTrait EXCEPT !.kind = kind] /\ typeShown' = kind
  /\ rereads' = FALSE
  /\ UNCHANGED <<loading, filesChosen, mark, errorTimers, traitVars, newest, asked>>

\* seeded error: only the new trait's index is set, the selector keeps its own
uploadCustomTraitUnselected ==
  LET kind == pendingTrait.kind IN
  /\ pendingTrait # NoTrait
  /\ images' = [images EXCEPT ![kind] = <<pendingTrait.name>> \o @]
  /\ modSeed' = [modSeed EXCEPT ![kind] = 0]
  /\ chosen' = [chosen EXCEPT ![kind] = pendingTrait.name]
  /\ pendingTrait' = NoTrait /\ typeShown' = DefaultKind /\ rereads' = FALSE
  /\ mark' = "none"
  /\ UNCHANGED <<selectIndexes, loading, filesChosen, errorTimers, newest, asked>>

\* unshift, and the selection follows
uploadCustomTrait ==
  LET kind == pendingTrait.kind IN
  /\ pendingTrait # NoTrait
  /\ images' = [images EXCEPT ![kind] = <<pendingTrait.name>> \o @]
  /\ modSeed' = [modSeed EXCEPT ![kind] = 0]
  /\ selectIndexes' = [selectIndexes EXCEPT ![kind] = 0]
  /\ chosen' = [chosen EXCEPT ![kind] = pendingTrait.name]
  /\ pendingTrait' = NoTrait /\ typeShown' = DefaultKind /\ rereads' = FALSE
  /\ mark' = "none"
  /\ UNCHANGED <<loading, filesChosen, errorTimers, newest, asked>>

PlaygroundNext ==
  \/ generateNounSvg
  \/ \E k \in Kinds : \/ \E i \in -1..Len(images[k]) - 1 : traitButtonHandler(k, i)
                      \/ ChooseKind(k)
  \/ \E f \in Pictures \union Garbage :
       validateCustomTrait(f) \/ setCustomTrait(f) \/ setPendingTraitInvalid(f)
  \/ ErrorTimeout \/ uploadCustomTrait

PlaygroundSpec == PlaygroundInit /\ [][PlaygroundNext]_playgroundVars

(***************************************************************************)
(* However the images move, a noun wears what was asked for when it was    *)
(* generated and each selector shows what the next one will wear; a        *)
(* pending trait goes where its selector says, unless another file was     *)
(* read after the kind was chosen; and a file is marked invalid no longer  *)
(* than a timer runs that will remove the mark (uploadCustomTrait,         *)
(* traitButtonHandler and setPendingTraitInvalid).                         *)
(***************************************************************************)
AskedIsWorn ==
  /\ \A k \in Kinds :
       /\ asked[k] # "any" => newest[k] = asked[k]
       /\ ImageAt(k, modSeed[k]) = chosen[k] /\ ImageAt(k, selectIndexes[k]) = chosen[k]
  /\ pendingTrait # NoTrait /\ ~rereads => pendingTrait.kind = typeShown
  /\ mark = "invalid" => errorTimers > 0
===============================================================================
