------------------------------ MODULE Envelope ------------------------------
(***************************************************************************)
(* A stored value (src/src/codec): the payload pushed through the filters  *)
(* of a chain and put under a header that names the chain.                 *)
(*                                                                         *)
(* Abstracted: a body is the filters wrapped around the payload, outermost *)
(* first, and whether its bytes are as written; a checksum misses no       *)
(* damage.  Serialisation (postcard) is the identity on payloads that are  *)
(* read as the type they were written as; Registry has the type tags.      *)
(***************************************************************************)
EXTENDS Naturals, SequencesExt

(* FilterChain::raw, default_chain, checksum_only. *)
RawChain == [id |-> 0, filters |-> <<>>]
DefaultChain == [id |-> 1, filters |-> <<"lz4", "crc32">>]
ChecksumOnly == [id |-> 2, filters |-> <<"crc32">>]
ShippedChains == {RawChain, DefaultChain, ChecksumOnly}

Payload == [layers |-> <<>>, intact |-> TRUE]
Garbage == [layers |-> <<>>, intact |-> FALSE]
Failures == [error : {"Corrupt", "UnsupportedVersion", "SchemaMismatch"}]
Fails(e) == {[error |-> e]}

(* Filter::forward, of the shipped filters. *)
Forward(body, filter) == [body EXCEPT !.layers = <<filter>> \o @]

(* FilterChain::seal. *)
Seal(chain) == [long |-> TRUE, magic |-> TRUE, version |-> 1, chain |-> chain.id,
                body |-> FoldLeft(Forward, Payload, chain.filters)]

(* Filter::reverse: what each may answer.  A checksum is over all it was   *)
(* handed; a decompressor handed anything else may fail or may not.        *)
Undone(filter, body) ==
  IF body.intact /\ body.layers # <<>> /\ Head(body.layers) = filter
  THEN {[body EXCEPT !.layers = Tail(@)]}
  ELSE IF filter = "crc32" THEN Fails("Corrupt") ELSE Fails("Corrupt") \cup {Garbage}

(* FilterChain::open's loop over the filters.  Slip: first to last.        *)
UnwrappingFirst(chain) == chain.filters
Unwrapping(chain) == Reverse(chain.filters)
Unwrapped(chain, body) ==
  FoldLeft(LAMBDA answers, filter :
             UNION {IF a \in Failures THEN {a} ELSE Undone(filter, a) : a \in answers},
           {body}, Unwrapping(chain))

(* FilterChain::open. *)
Open(chain, stored) ==
  IF ~stored.long \/ ~stored.magic THEN Fails("Corrupt")
  ELSE IF stored.version # 1 THEN Fails("UnsupportedVersion")
  ELSE IF stored.chain # chain.id THEN Fails("SchemaMismatch")
  ELSE Unwrapped(chain, stored.body)

(* One thing wrong with a stored value: cut short, another program's,      *)
(* another version's, another chain's, or a damaged body.                  *)
Damaged(stored) ==
  {[stored EXCEPT !.long = FALSE], [stored EXCEPT !.magic = FALSE],
   [stored EXCEPT !.version = 2], [stored EXCEPT !.body.intact = FALSE]}
  \cup {[stored EXCEPT !.chain = c.id] : c \in {d \in ShippedChains : d.id # stored.chain}}

(* A chain opens what it sealed, every other chain refuses it, and if it   *)
(* checksums at all it answers with an error whatever was damaged.         *)
Honest(chain) ==
  /\ Open(chain, Seal(chain)) = {Payload}
  /\ \A d \in ShippedChains \ {chain} : Open(d, Seal(chain)) = Fails("SchemaMismatch")
  /\ chain # RawChain => \A s \in Damaged(Seal(chain)) : Open(chain, s) \subseteq Failures

=============================================================================
