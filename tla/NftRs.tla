-------------------------------- MODULE NftRs --------------------------------
(***************************************************************************)
(* The NFT contract in Rust (src/contracts/nft.rs).  A call is atomic, and *)
(* one that panics has no effect.                                          *)
(*                                                                         *)
(* tokens, owners, private_owners, encrypted_metadata and approvals have   *)
(* token ids as keys and share their entries (see SdkStorage): what is     *)
(* written last is what a token id has.  An address is stored as an array  *)
(* of 20 bytes, and so is encrypted metadata of that length.               *)
(***************************************************************************)
EXTENDS Integers, SdkStorage

CONSTANTS
    NftUsers,     \* addresses
    Stealths,     \* stealth addresses
    Nullifiers,   \* nullifiers of private transfers
    LongMetadata, \* encrypted metadata that is no address
    MaxSupply,    \* bound: tokens minted
    NoOwner       \* no address; also Address::new(&[0u8; 32]), which nobody has

VARIABLES
    nft,           \* the table of the contract
    total_supply,
    recipient      \* history: whom mint or transfer last gave each token to, or NoOwner

nftVars == <<nft, total_supply, recipient>>

TokenKey(id) == <<"u256", id>>
OperatorKey(owner, operator) == <<"(Address, Address)", owner, operator>>
NullifierKey(n) == <<"Hash", n>>

NftInit ==
    /\ nft = EmptyTable
    /\ total_supply = 0
    /\ recipient = [id \in 1..MaxSupply |-> NoOwner]

-----------------------------------------------------------------------------
(* Minting: the entries written first are overwritten by the last one.     *)

Mint(to) ==
    LET id == total_supply + 1 IN
    /\ total_supply < MaxSupply
    /\ total_supply' = id
    /\ nft' = Put(Put(nft, "TokenData", TokenKey(id), "public"), "Address", TokenKey(id), to)
    /\ recipient' = [recipient EXCEPT ![id] = to]

MetadataType(metadata) == IF metadata \in NftUsers THEN "Address" ELSE "bytes"

\* A call whose metadata proof verifies; the metadata has any length.
MintPrivate(stealth, metadata) ==
    LET id == TokenKey(total_supply + 1) IN
    /\ total_supply < MaxSupply
    /\ total_supply' = total_supply + 1
    /\ nft' = Put(Put(Put(nft, "TokenData", id, "private"), "StealthAddress", id, stealth),
                  MetadataType(metadata), id, metadata)
    /\ UNCHANGED recipient

-----------------------------------------------------------------------------
(* Transfers and approvals                                                 *)

OwnerOf(id) == Get(nft, "Address", TokenKey(id), NoOwner)

\* owners and approvals are read from the same entry.
IsApprovedOrOwner(spender, id) ==
    \/ OwnerOf(id) = spender
    \/ Get(nft, "Address", TokenKey(id), NoOwner) = spender
    \/ Get(nft, "bool", OperatorKey(OwnerOf(id), spender), FALSE)

\* The caller is not looked at; from is an argument.
Transfer(from, to, id) ==
    /\ IsApprovedOrOwner(from, id)
    /\ Get(nft, "TokenData", TokenKey(id), "none") = "public"
    /\ nft' = Erase(Put(nft, "Address", TokenKey(id), to), TokenKey(id))
    /\ recipient' = [recipient EXCEPT ![id] = to]
    /\ UNCHANGED total_supply

\* A call whose ownership proof verifies.
PrivateTransfer(id, stealth, nullifier) ==
    /\ Get(nft, "TokenData", TokenKey(id), "none") = "private"
    /\ Has(nft, "StealthAddress", TokenKey(id))
    /\ ~Marked(nft, NullifierKey(nullifier))
    /\ nft' = Put(Mark(nft, NullifierKey(nullifier)), "StealthAddress", TokenKey(id), stealth)
    /\ UNCHANGED <<total_supply, recipient>>

\* approvals.insert writes where the owner is stored.
Approve(caller, to, id) ==
    /\ OwnerOf(id) = caller
    /\ nft' = Put(nft, "Address", TokenKey(id), to)
    /\ UNCHANGED <<total_supply, recipient>>

SetApprovalForAll(caller, operator, approved) ==
    /\ nft' = Put(nft, "bool", OperatorKey(caller, operator), approved)
    /\ UNCHANGED <<total_supply, recipient>>

NftNext ==
    \/ \E to \in NftUsers : Mint(to)
    \/ \E stealth \in Stealths, metadata \in NftUsers \cup {LongMetadata} : MintPrivate(stealth, metadata)
    \/ \E id \in 1..MaxSupply :
           \/ \E from, to \in NftUsers : Transfer(from, to, id)
           \/ \E caller, to \in NftUsers : Approve(caller, to, id)
           \/ \E stealth \in Stealths, n \in Nullifiers : PrivateTransfer(id, stealth, n)
    \/ \E caller, operator \in NftUsers, approved \in BOOLEAN : SetApprovalForAll(caller, operator, approved)

NftSpec == NftInit /\ [][NftNext]_nftVars

-----------------------------------------------------------------------------
(* Properties                                                              *)

\* owner_of names the address that mint or transfer gave a public token to:
\* approve names an operator and takes nothing from the owner.  Violated:
\* the approved address is stored in the place of the owner.
OwnerIsRecipient ==
    \A id \in 1..MaxSupply : recipient[id] # NoOwner => OwnerOf(id) = recipient[id]
=============================================================================
