-------------------------------- MODULE Dnssec -------------------------------
(***************************************************************************)
(* Signatures of RRsets, and the records by which a zone is delegated to a *)
(* key, as dns.dnssec makes and checks them.                               *)
(*                                                                         *)
(* The primitives are perfect: a signature verifies for the key, hash and  *)
(* data it was made of and for no other, and a digest is the data.  A      *)
(* number is the sequence of its bytes without leading zeros.  A public    *)
(* key also says, in r and s, which numbers its (EC)DSA signatures consist *)
(* of.  An RRset is a name, a type, a TTL and a sequence of rdatas, each   *)
(* a sequence of labels; an optional name is a set of at most one.         *)
(***************************************************************************)
EXTENDS Names, FiniteSets, TLC

Done(value) == [err |-> "none", value |-> value]
NotDone(err) == [err |-> err, value |-> <<>>]

-----------------------------------------------------------------------------
(* Algorithms.                                                             *)

Rsa == {1, 5, 7, 8, 10}
Dsa == {3, 6}
Gost == 12
EcdsaP256 == 13
EcdsaP384 == 14
Ed25519 == 15
Ed448 == 16
Ecdsa == {EcdsaP256, EcdsaP384}

HashOf(algorithm) ==
    CASE algorithm = 1 -> "MD5"
      [] algorithm \in {3, 5, 6, 7} -> "SHA1"
      [] algorithm \in {8, EcdsaP256} -> "SHA256"
      [] algorithm = EcdsaP384 -> "SHA384"
      [] algorithm \in {10, Ed25519} -> "SHA512"
      [] algorithm = Ed448 -> "SHAKE256"
      [] OTHER -> "unknown"

FitsKey(algorithm, kind) ==
    algorithm \in CASE kind = "rsa" -> Rsa [] kind = "dsa" -> Dsa [] kind = "ec" -> Ecdsa
                    [] kind = "ed25519" -> {Ed25519} [] kind = "ed448" -> {Ed448}

(* What a policy denies.                                                   *)
Rfc8624 == [sign |-> {1, 3, 6, Gost}, validate |-> {1, 3, 6}, createDs |-> {0, 1, 3}, validateDs |-> {0}]

-----------------------------------------------------------------------------
(* Keys.                                                                   *)

BitLength(n) ==
    IF n = <<>> THEN 0
    ELSE 8 * Len(n) - CHOOSE zeros \in 0..7 : n[1] * 2 ^ zeros \in 128..255

ToBytes(n, length) ==
    IF Len(n) > length THEN NotDone("OverflowError")
    ELSE Done([i \in 1..length - Len(n) |-> 0] \o n)

FromBytes(bytes) ==
    LET zeros == CHOOSE k \in 0..Len(bytes) :
            (\A i \in 1..k : bytes[i] = 0) /\ (k = Len(bytes) \/ bytes[k + 1] # 0)
    IN  SubSeq(bytes, zeros + 1, Len(bytes))

Slice(bytes, from, length) == SubSeq(bytes, from + 1, IF from + length < Len(bytes) THEN from + length ELSE Len(bytes))
Rest(bytes, from) == SubSeq(bytes, from + 1, Len(bytes))

(* One failure of many fails the whole.                                    *)
Packed(parts) ==
    IF \E i \in DOMAIN parts : parts[i].err # "none"
    THEN parts[CHOOSE i \in DOMAIN parts : parts[i].err # "none" /\ \A k \in 1..i - 1 : parts[k].err = "none"]
    ELSE Done(FlattenSeq([i \in DOMAIN parts |-> parts[i].value]))

RsaBytes(public) ==
    LET length == Len(public.e)
        header == IF length > 255 THEN <<0, length \div 256, length % 256>> ELSE <<length>>
    IN  IF BitLength(public.n) \notin 512..4096 THEN NotDone("ValueError")
        ELSE Done(header \o public.e \o public.n)

DsaBytes(public) ==
    LET t == (BitLength(public.p) \div 8 - 64) \div 8
    IN  IF t > 8 THEN NotDone("ValueError")
        ELSE Packed(<<Done(<<t>>), ToBytes(public.q, 20), ToBytes(public.p, 64 + 8 * t),
                      ToBytes(public.g, 64 + 8 * t), ToBytes(public.y, 64 + 8 * t)>>)

CurveOctets(algorithm) == IF algorithm = EcdsaP256 THEN 32 ELSE 48

UnsizedMutant(public) == Done(public.x \o public.y)

EcBytes(public) ==
    LET octets == IF public.curve = "P256" THEN 32 ELSE 48
    IN  Packed(<<ToBytes(public.x, octets), ToBytes(public.y, octets)>>)

KeyBytes(public) ==
    CASE public.kind = "rsa" -> RsaBytes(public)
      [] public.kind = "dsa" -> DsaBytes(public)
      [] public.kind = "ec" -> EcBytes(public)
      [] OTHER -> Done(public.raw)

DnskeyOf(bytes, algorithm, flags) ==
    IF bytes.err # "none" THEN bytes
    ELSE Done([type |-> "DNSKEY", flags |-> flags, protocol |-> 3, algorithm |-> algorithm, key |-> bytes.value])

MakeDnskey(public, algorithm, flags) ==
    IF ~FitsKey(algorithm, public.kind) THEN NotDone("AlgorithmKeyMismatch")
    ELSE DnskeyOf(KeyBytes(public), algorithm, flags)

MakeCdnskey(public, algorithm, flags) ==
    LET dnskey == MakeDnskey(public, algorithm, flags)
    IN  IF dnskey.err # "none" THEN dnskey ELSE [dnskey EXCEPT !.value.type = "CDNSKEY"]

KeyWire(key) == <<key.flags \div 256, key.flags % 256, key.protocol, key.algorithm>> \o key.key

KeyId(key) ==
    LET wire  == KeyWire(key)
        sum[i, k \in 1..Len(wire)] ==
            IF i < k THEN sum[i, (i + k) \div 2] + sum[(i + k) \div 2 + 1, k]
            ELSE IF i % 2 = 1 THEN wire[i] * 256 ELSE wire[i]
        total == sum[1, Len(wire)]
    IN  IF key.algorithm = 1 THEN wire[Len(wire) - 2] * 256 + wire[Len(wire) - 1]
        ELSE (total + ((total \div 65536) % 65536)) % 65536

(* The key that _validate_signature finds in a DNSKEY: its numbers only.   *)
KeyNumbers(key) ==
    LET bytes == key.key
        short == bytes[1] # 0
        eLen  == IF short THEN bytes[1] ELSE bytes[2] * 256 + bytes[3]
        eAt   == IF short THEN 1 ELSE 3
        size  == 64 + 8 * bytes[1]
        curve == CurveOctets(key.algorithm)
    IN  CASE key.algorithm \in Rsa ->
               <<FromBytes(Slice(bytes, eAt, eLen)), FromBytes(Rest(bytes, eAt + eLen))>>
          [] key.algorithm \in Dsa ->
               << FromBytes(Slice(bytes, 21 + 2 * size, size)), FromBytes(Slice(bytes, 21, size)),
                  FromBytes(Slice(bytes, 1, 20)), FromBytes(Slice(bytes, 21 + size, size)) >>
          [] key.algorithm \in Ecdsa ->
               <<FromBytes(Slice(bytes, 0, curve)), FromBytes(Slice(bytes, curve, curve))>>
          [] OTHER -> <<bytes>>

Numbers(public) ==
    CASE public.kind = "rsa" -> <<public.e, public.n>>
      [] public.kind = "dsa" -> <<public.y, public.p, public.q, public.g>>
      [] public.kind = "ec" -> <<public.x, public.y>>
      [] OTHER -> <<public.raw>>

-----------------------------------------------------------------------------
(* What is signed.                                                         *)

LabelCount(name) == Len(name) - 1
NameWire(labels) == FlattenSeq([i \in DOMAIN labels |-> <<Len(labels[i])>> \o labels[i]])
Star == <<42>>

Sorted(wires) == SortSeq(wires, LabelLess)

(* The owner an answer that may come from a wildcard was signed for.       *)
SignedOwner(owner, labels) ==
    IF labels < LabelCount(owner) THEN <<Star>> \o SplitName(owner, labels + 1)[2] ELSE owner

(* The signer is made absolute by itself: right for "@", wrong below it.   *)
SignatureData(rrset, rrsig, origin) ==
    LET missing(name) == ~IsAbsolute(name) /\ origin = {}
        absolute(name) == IF IsAbsolute(name) THEN name ELSE name \o CHOOSE o \in origin : TRUE
        owner == absolute(rrset.name)
    IN  IF missing(rrsig.signer) \/ missing(rrset.name) THEN NotDone("ValidationFailure")
        ELSE IF LabelCount(owner) < rrsig.labels THEN NotDone("ValidationFailure")
        ELSE IF \E i \in DOMAIN rrset.rdatas : missing(rrset.rdatas[i])
             THEN NotDone("NeedAbsoluteNameOrOrigin")
        ELSE Done([ fixed  |-> <<rrsig.covers, rrsig.algorithm, rrsig.labels, rrsig.originalTtl,
                                 rrsig.expiration, rrsig.inception, rrsig.keyTag>>,
                    signer |-> Digestable(rrsig.signer, {absolute(rrsig.signer)}),
                    owner  |-> Digestable(SignedOwner(owner, rrsig.labels), {}),
                    set    |-> <<rrset.type, rrsig.originalTtl>>,
                    rdatas |-> Sorted([i \in DOMAIN rrset.rdatas |->
                                   NameWire(Digestable(rrset.rdatas[i], origin))]) ])

(* The signature's own bytes: those of two numbers for DSA and ECDSA.      *)
SignatureBytes(public, algorithm) ==
    CASE public.kind = "dsa" ->
           Packed(<<Done(<<(BitLength(public.p) \div 8 - 64) \div 8>>),
                    ToBytes(public.r, 20), ToBytes(public.s, 20)>>)
      [] public.kind = "ec" ->
           Packed(<<ToBytes(public.r, CurveOctets(algorithm)), ToBytes(public.s, CurveOctets(algorithm))>>)
      [] OTHER -> Done(<<>>)

(* The numbers those bytes are taken for.                                  *)
SignatureNumbers(bytes, algorithm) ==
    CASE algorithm \in Dsa -> <<FromBytes(Slice(bytes, 1, 20)), FromBytes(Rest(bytes, 21))>>
      [] algorithm \in Ecdsa ->
           LET octets == CurveOctets(algorithm)
           IN  <<FromBytes(Slice(bytes, 0, octets)), FromBytes(Rest(bytes, octets))>>
      [] OTHER -> <<>>

(* The primitive: what was signed by whom, hashed how, made of which       *)
(* numbers.                                                                *)
Seal(public, data, algorithm) ==
    [ by |-> Numbers(public), data |-> data, hash |-> HashOf(algorithm),
      numbers |-> IF public.kind \in {"dsa", "ec"} THEN <<public.r, public.s>> ELSE <<>> ]

-----------------------------------------------------------------------------
(* Signing and validating.                                                 *)

SealedWith(rrsig, public, data, bytes, policy) ==
    IF rrsig.algorithm \in policy.sign THEN NotDone("DeniedByPolicy")
    ELSE IF data.err # "none" THEN data
    ELSE IF HashOf(rrsig.algorithm) = "unknown" THEN NotDone("ValidationFailure")
    ELSE IF ~FitsKey(rrsig.algorithm, public.kind) THEN NotDone("ValueError")
    ELSE IF public.kind = "dsa" /\ BitLength(public.p) > 1024 THEN NotDone("ValueError")
    ELSE IF bytes.err # "none" THEN bytes
    ELSE Done([ rrsig |-> rrsig, signature |-> bytes.value, seal |-> Seal(public, data.value, rrsig.algorithm) ])

(* labels: len(rrname) - 1 in _sign; other signers leave the "*" out.      *)
SignAs(rrset, public, signer, dnskey, inception, expiration, policy, labels) ==
    LET rrsig == [ covers |-> rrset.type, algorithm |-> dnskey.algorithm, labels |-> labels,
                   originalTtl |-> rrset.ttl, expiration |-> expiration, inception |-> inception,
                   keyTag |-> KeyId(dnskey), signer |-> signer ]
    IN  SealedWith(rrsig, public, SignatureData(rrset, rrsig, {}),
                   SignatureBytes(public, dnskey.algorithm), policy)

Sign(rrset, public, signer, dnskey, inception, expiration, policy) ==
    SignAs(rrset, public, signer, dnskey, inception, expiration, policy, LabelCount(rrset.name))

(* keys: an RRset of DNSKEYs for each of some names.                       *)
KeysOf(keys, signer) ==
    UNION { {keys[name]} : name \in {n \in DOMAIN keys : SameName(n, signer)} }

CandidateKeys(keys, rrsig) ==
    IF KeysOf(keys, rrsig.signer) = {} THEN {}
    ELSE LET set == CHOOSE k \in KeysOf(keys, rrsig.signer) : TRUE
             fits(key) == key.algorithm = rrsig.algorithm /\ KeyId(key) = rrsig.keyTag
         IN  {SelectSeq(set, fits)}

Verifies(signed, data, key) ==
    /\ key.algorithm # Gost
    /\ signed.seal = [ by |-> KeyNumbers(key), data |-> data, hash |-> HashOf(key.algorithm),
                       numbers |-> SignatureNumbers(signed.signature, key.algorithm) ]

VerifiesWith(signed, data, candidates, now, policy) ==
    IF candidates = {} \/ signed.rrsig.expiration < now \/ signed.rrsig.inception > now
    THEN NotDone("ValidationFailure")
    ELSE IF data.err # "none" THEN data
    ELSE IF /\ HashOf(signed.rrsig.algorithm) # "unknown"
            /\ \E list \in candidates : \E i \in DOMAIN list :
                   list[i].algorithm \notin policy.validate /\ Verifies(signed, data.value, list[i])
    THEN Done(<<>>) ELSE NotDone("ValidationFailure")

ValidateRrsig(rrset, signed, keys, origin, now, policy) ==
    VerifiesWith(signed, SignatureData(rrset, signed.rrsig, origin),
                 CandidateKeys(keys, signed.rrsig), now, policy)

(* The first that is good, or raises an exception that is the caller's.    *)
FirstToEnd(results) ==
    LET ends == SelectSeq(results, LAMBDA result : result.err \notin {"ValidationFailure", "UnsupportedAlgorithm"})
    IN  IF ends = <<>> THEN NotDone("ValidationFailure") ELSE Head(ends)

(* owner: that of the RRSIGs.                                              *)
Validate(rrset, owner, rrsigs, keys, origin, now, policy) ==
    LET under(name) == ChooseRelativity(name, origin, TRUE).labels
    IN  IF ~SameName(under(rrset.name), under(owner)) THEN NotDone("ValidationFailure")
        ELSE FirstToEnd([i \in DOMAIN rrsigs |-> ValidateRrsig(rrset, rrsigs[i], keys, origin, now, policy)])

-----------------------------------------------------------------------------
(* Delegation: digests of keys.                                            *)

DigestHash(digest) == CASE digest = 1 -> "SHA1" [] digest = 2 -> "SHA256" [] digest = 4 -> "SHA384" [] OTHER -> "unknown"

AsWrittenMutant(name, key, digest, policy, validating) ==
    IF digest \in (IF validating THEN policy.validateDs ELSE policy.createDs) THEN NotDone("DeniedByPolicy")
    ELSE IF DigestHash(digest) = "unknown" THEN NotDone("UnsupportedAlgorithm")
    ELSE Done([ type |-> "DS", keyTag |-> KeyId(key), algorithm |-> key.algorithm, digestType |-> digest,
                digest |-> <<DigestHash(digest), NameWire(name) \o KeyWire(key)>> ])

MakeDs(name, key, digest, policy, validating) ==
    IF digest \in (IF validating THEN policy.validateDs ELSE policy.createDs) THEN NotDone("DeniedByPolicy")
    ELSE IF DigestHash(digest) = "unknown" THEN NotDone("UnsupportedAlgorithm")
    ELSE IF ~IsAbsolute(name) THEN NotDone("NeedAbsoluteNameOrOrigin")
    ELSE Done([ type |-> "DS", keyTag |-> KeyId(key), algorithm |-> key.algorithm, digestType |-> digest,
                digest |-> <<DigestHash(digest), NameWire(CanonicalName(name)) \o KeyWire(key)>> ])

MakeCds(name, key, digest) ==
    LET ds == MakeDs(name, key, digest, Rfc8624, FALSE)
    IN  IF ds.err # "none" THEN ds ELSE [ds EXCEPT !.value.type = "CDS"]

CdsToDs(set) == {[cds EXCEPT !.type = "DS"] : cds \in set}

(* What fails for one fails for all.                                       *)
AllOf(made) ==
    IF \E k \in DOMAIN made : made[k].err # "none"
    THEN made[CHOOSE k \in DOMAIN made : made[k].err # "none"]
    ELSE Done({made[k].value : k \in DOMAIN made})

DnskeyToCds(name, set, digest) == AllOf([key \in set |-> MakeCds(name, key, digest)])

(* rdtype=rdataset.rdtype: they are still called DNSKEYs.                  *)
DnskeyToCdnskey(set) == set

(* From DNSKEYs or CDNSKEYs, records of type CDS; from CDSs, DSs of those  *)
(* that are asked for.                                                     *)
MakeDsRdataset(name, type, set, digests) ==
    LET accepted == {ds \in CdsToDs(set) : ds.digestType \in digests}
        made     == AllOf([digest \in digests |-> DnskeyToCds(name, set, digest)])
    IN  IF type = "CDS" THEN IF accepted = {} THEN NotDone("ValueError") ELSE Done(accepted)
        ELSE IF type \notin {"DNSKEY", "CDNSKEY"} \/ set = {} \/ digests = {} THEN NotDone("ValueError")
        ELSE IF made.err # "none" THEN made
        ELSE Done(UNION made.value)

(* A digest is one opaque byte: it is no prefix of anything but itself.    *)
Nsec3Hash(name, salt, iterations) ==
    FoldLeft(LAMBDA digest, i : <<"SHA1", <<digest>> \o salt>>,
             <<"SHA1", NameWire(CanonicalName(name)) \o salt>>, [i \in 1..iterations |-> i])

-----------------------------------------------------------------------------
Capital(name) ==
    [i \in DOMAIN name |-> [k \in DOMAIN name[i] |->
        IF name[i][k] \in 97..122 THEN name[i][k] - 32 ELSE name[i][k]]]

(* Ways to see an RRset: relative or in capitals, with another TTL.  An    *)
(* expanded owner is one the wildcard stands for.                          *)
SeenAs(rrset, origin, expanded) ==
    LET owners == {rrset.name, Capital(rrset.name), RelativizeName(rrset.name, origin)}
                  \cup IF rrset.name[1] = Star THEN {expanded} ELSE {}
    IN  { [rrset EXCEPT !.name = owner, !.ttl = 1, !.rdatas = rdatas] :
            owner \in owners,
            rdatas \in {Reverse(rrset.rdatas), [i \in DOMAIN rrset.rdatas |-> Capital(rrset.rdatas[i])],
                        [i \in DOMAIN rrset.rdatas |-> RelativizeName(rrset.rdatas[i], origin)]} }

(* What it is not.                                                         *)
OtherThan(rrset, origin) ==
    { [rrset EXCEPT !.rdatas = Tail(@)], [rrset EXCEPT !.rdatas = Append(@, <<Star>> \o origin)],
      [rrset EXCEPT !.type = "other"] }
    \cup IF rrset.name[1] = Star THEN {} ELSE {[rrset EXCEPT !.name = <<Star>> \o @], [rrset EXCEPT !.name = Tail(@)]}

(* What a key has signed is valid, to whoever holds that key among others  *)
(* with its tag, from its inception to its expiration and not before or    *)
(* after; in whatever order, case, with whatever remaining TTL it is seen, *)
(* relative to its origin or expanded from a wildcard (if the signer left  *)
(* out the "*"); and nothing else is: not with an rdata more or less, of   *)
(* another owner or type, or to one who holds other keys or denies this.   *)
SignatureHolds(rrset, public, dnskey, others, origin, expanded, policy) ==
    LET labels == LabelCount(rrset.name) - IF rrset.name[1] = Star THEN 1 ELSE 0
        seen  == SeenAs(rrset, origin, expanded)
    IN  \A signed \in {SignAs(rrset, public, origin, dnskey, 10, 20, policy, labels)} :
          IF dnskey.algorithm \in policy.sign THEN signed.err = "DeniedByPolicy"
          ELSE /\ signed.err = "none"
               /\ rrset.name[1] # Star => signed = Sign(rrset, public, origin, dnskey, 10, 20, policy)
               /\ \A s \in seen \cup OtherThan(rrset, origin), now \in {9, 10, 20, 21},
                     held \in {others, others \o <<dnskey>>} :
                    LET valid == Validate(s, s.name, <<signed.value>>, CanonicalName(origin) :> held,
                                          {origin}, now, policy)
                    IN  (valid.err = "none") = (s \in seen /\ now \in 10..20 /\ held # others)

(* The DS records a parent makes, of the keys, of the CDNSKEYs or of the   *)
(* CDSs a child publishes, are those that fit the keys: a resolver that is *)
(* given the key and the owner, in any case, makes the same digest of it,  *)
(* and of another key or owner it does not.                                *)
DelegationHolds(name, recased, elsewhere, key, cdnskey, others, digests) ==
    LET set     == {key} \cup others
        cds     == MakeDsRdataset(name, "DNSKEY", set, digests)
        byCdn   == MakeDsRdataset(name, "CDNSKEY", {cdnskey} \cup DnskeyToCdnskey(others), digests)
        fits(owner, k, ds) == MakeDs(owner, k, ds.digestType, Rfc8624, TRUE).value = ds
    IN  IF digests \cap Rfc8624.createDs # {} THEN cds.err = "DeniedByPolicy"
        ELSE LET dss == MakeDsRdataset(name, "CDS", cds.value, digests)
             IN  /\ dss.err = "none" /\ byCdn = cds /\ dss.value = CdsToDs(cds.value)
                 /\ \A digest \in digests : \E ds \in dss.value : ds.digestType = digest /\ fits(recased, key, ds)
                 /\ \A ds \in dss.value : ~fits(elsewhere, key, ds) /\ Cardinality({k \in set : fits(name, k, ds)}) = 1

(* Names hash alike if, and only if, they are one name hashed as often     *)
(* with the same salt.                                                     *)
HashesTell(names, salts, most) ==
    \A a, b \in names, s, t \in salts, i, k \in 0..most :
        (Nsec3Hash(a, s, i) = Nsec3Hash(b, t, k)) = (SameName(a, b) /\ s = t /\ i = k)
=============================================================================
