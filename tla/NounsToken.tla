------------------------------ MODULE NounsToken ------------------------------
(***************************************************************************)
(* UNounsToken.sol: who may mint, what a mint creates, and the settings    *)
(* behind it.  Of the ERC721 layers below only the owner of each noun is   *)
(* kept (they are modelled in ERC721Checkpointable); transfers between     *)
(* holders are theirs and are left out.                                    *)
(*                                                                         *)
(* One mint makes up to three nouns: a reward for the unounders DAO, a     *)
(* reward for the unouncil DAO, and the noun for the minter.  It can fail  *)
(* in two ways that a caller's `catch Error(string)' tells apart: with a   *)
(* reason (a require), or with a panic: the seeder divides by the number   *)
(* of parts of a layer, which is 0 while the descriptor's art is empty.    *)
(***************************************************************************)
EXTENDS Naturals

CONSTANTS
  Zero,          \* address(0)
  DAO,           \* owner(): the DAO's executor
  Unounders,     \* the creators' organisation
  Unouncil,      \* unouncilDAO
  NewMinters,    \* the addresses the owner may hand minting to
  Nouns          \* bound: the ids that can be minted

VARIABLES
  nounOwner,       \* owner of every noun, Zero if it does not exist
  currentNounId,   \* _currentUNounId: the next id
  minter,
  unoundersDAO,
  isMinterLocked,
  isDescriptorLocked,
  artReady         \* the descriptor has parts for every layer

tokenVars == <<nounOwner, currentNounId, minter, unoundersDAO,
               isMinterLocked, isDescriptorLocked, artReady>>
settingVars == <<minter, unoundersDAO, isMinterLocked, isDescriptorLocked,
                 artReady>>

\* the reward that is due at an id, and the id after it
UnoundersDue(id) == id <= 1865 /\ id % 10 = 0
UnouncilDue(id)  == id <= 222 /\ id % 10 = 2

AfterUnounders(id) == IF UnoundersDue(id) THEN id + 1 ELSE id

\* the id mint() returns: the one after the rewards
MintedId ==
  LET id == AfterUnounders(currentNounId)
  IN  IF UnouncilDue(id) THEN id + 1 ELSE id

MintReverts(sender) ==
  \/ sender # minter
  \/ artReady /\ unoundersDAO = Zero /\ UnoundersDue(currentNounId)

MintPanics(sender) == sender = minter /\ ~artReady

\* the owners after a mint, when it started from the owners `own'
MintedOwners(own) ==
  [id \in Nouns |->
     IF id \notin currentNounId .. MintedId THEN own[id]
     ELSE IF id = MintedId THEN minter
     ELSE IF id = currentNounId /\ UnoundersDue(id) THEN unoundersDAO
     ELSE Unouncil]

CanMint(sender) ==
  /\ ~MintReverts(sender)
  /\ ~MintPanics(sender)
  /\ currentNounId .. MintedId \subseteq Nouns

\* mint(), on behalf of a caller that has already left the owners at `own'
Mint(sender, own) ==
  /\ CanMint(sender)
  /\ nounOwner' = MintedOwners(own)
  /\ currentNounId' = MintedId + 1
  /\ UNCHANGED settingVars

\* Seeded error: onlyMinter is missing.
BurnByAnyone(sender, id) ==
  /\ nounOwner[id] # Zero
  /\ nounOwner' = [nounOwner EXCEPT ![id] = Zero]
  /\ UNCHANGED <<currentNounId, settingVars>>

Burn(sender, id) ==
  /\ sender = minter
  /\ nounOwner[id] # Zero
  /\ nounOwner' = [nounOwner EXCEPT ![id] = Zero]
  /\ UNCHANGED <<currentNounId, settingVars>>

\* the owner's settings: the DAO votes for each of them
SetMinter(newMinter) ==
  /\ ~isMinterLocked
  /\ minter' = newMinter
  /\ UNCHANGED <<nounOwner, currentNounId, unoundersDAO, isMinterLocked,
                 isDescriptorLocked, artReady>>

LockMinter ==
  /\ ~isMinterLocked
  /\ isMinterLocked' = TRUE
  /\ UNCHANGED <<nounOwner, currentNounId, minter, unoundersDAO,
                 isDescriptorLocked, artReady>>

\* a new descriptor comes with art or without
SetDescriptor(ready) ==
  /\ ~isDescriptorLocked
  /\ artReady' = ready
  /\ UNCHANGED <<nounOwner, currentNounId, minter, unoundersDAO,
                 isMinterLocked, isDescriptorLocked>>

LockDescriptor ==
  /\ ~isDescriptorLocked
  /\ isDescriptorLocked' = TRUE
  /\ UNCHANGED <<nounOwner, currentNounId, minter, unoundersDAO,
                 isMinterLocked, artReady>>

\* called by the unounders DAO only, and not checked for the zero address
SetUNoundersDAO(newDAO) ==
  /\ unoundersDAO # Zero
  /\ unoundersDAO' = newDAO
  /\ UNCHANGED <<nounOwner, currentNounId, minter, isMinterLocked,
                 isDescriptorLocked, artReady>>
===============================================================================
