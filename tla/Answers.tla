------------------------------ MODULE Answers -------------------------------
(***************************************************************************)
(* How the answers to a listing are read: parse_multistatus (webdav.rs)    *)
(* and parse_listing (azure/mod.rs).  Both go through the events of a      *)
(* document, in which elements they did not ask for may come anywhere.     *)
(*                                                                         *)
(* An event says what it is and of what: the local name of an element, or  *)
(* a text, which stands for the key it names.  A reference such as &amp;   *)
(* is an event of its own, and parts the text it stands in.                *)
(***************************************************************************)
EXTENDS Naturals, Sequences, FiniteSets, SequencesExt

CONSTANT
    AfterReference  \* what a key with a reference in its name ends in, behind the last one

Start(name) == <<[is |-> "start", of |-> name]>>
End(name) == <<[is |-> "end", of |-> name]>>
Empty(name) == <<[is |-> "empty", of |-> name]>>
Text(value) == <<[is |-> "text", of |-> value]>>
Reference == <<[is |-> "reference", of |-> "amp"]>>
Element(name, within) == Start(name) \o within \o End(name)

Opens(e, name) == e.is = "start" /\ e.of = name
Closes(e, name) == e.is = "end" /\ e.of = name

NotAListing == [refused |-> TRUE]

-----------------------------------------------------------------------------
(* WebDAV: each response is a place, and a folder if it has a collection   *)
(* anywhere, written as one tag or as two.                                 *)

Found == [href |-> <<>>, isCollection |-> FALSE]

ToRead == [found |-> <<>>, current |-> Found, inside |-> "",
           inResponse |-> FALSE, isListing |-> FALSE]

IsCollection(r, e) == e.is \in {"start", "empty"} /\ e.of = "collection" /\ r.inResponse

ReadOn(r, e) ==
    IF Opens(e, "multistatus") THEN [r EXCEPT !.isListing = TRUE]
    ELSE IF Opens(e, "response") THEN [r EXCEPT !.inResponse = TRUE, !.current = Found]
    ELSE IF IsCollection(r, e) THEN [r EXCEPT !.current.isCollection = TRUE]
    ELSE IF e.is = "start" THEN [r EXCEPT !.inside = e.of]
    ELSE IF e.is = "text" /\ r.inResponse /\ r.inside = "href"
         THEN [r EXCEPT !.current.href = e.of]
    ELSE IF Closes(e, "response")
         THEN [r EXCEPT !.inResponse = FALSE, !.inside = "",
                        !.found = Append(@, r.current), !.current = Found]
    ELSE IF e.is = "end" THEN [r EXCEPT !.inside = ""]
    ELSE r

parse_multistatus(body) ==
    LET read[i \in 0 .. Len(body)] ==
            IF i = 0 THEN ToRead ELSE ReadOn(read[i - 1], body[i])
        r == read[Len(body)]
    IN  IF r.isListing THEN r.found ELSE NotAListing

-----------------------------------------------------------------------------
(* Azure: blobs by their whole names, prefixes that stand for what lies    *)
(* deeper, and where the next page starts if there is one.                 *)

Listing == [blobs |-> {}, folders |-> {}, next |-> <<>>]

ListingToRead == [listing |-> Listing, blob |-> <<>>, prefix |-> <<>>, inside |-> "",
                  inBlob |-> FALSE, inPrefix |-> FALSE, isListing |-> FALSE]

TextIsRead(r, value) ==
    CASE r.inside = "nextmarker" -> [r EXCEPT !.listing.next = value]
      [] r.inside = "name" /\ r.inPrefix -> [r EXCEPT !.prefix = value]
      [] r.inside = "name" /\ r.inBlob /\ ~r.inPrefix -> [r EXCEPT !.blob = value]
      [] OTHER -> r

ListOn(r, e) ==
    IF Opens(e, "enumerationresults") THEN [r EXCEPT !.isListing = TRUE]
    ELSE IF Opens(e, "blob") THEN [r EXCEPT !.inBlob = TRUE, !.blob = <<>>]
    ELSE IF Opens(e, "blobprefix") THEN [r EXCEPT !.inPrefix = TRUE, !.prefix = <<>>]
    ELSE IF e.is = "start" THEN [r EXCEPT !.inside = e.of]
    ELSE IF e.is = "text" THEN TextIsRead(r, e.of)
    ELSE IF Closes(e, "blob")
         THEN [r EXCEPT !.inBlob = FALSE, !.inside = "",
                        !.listing.blobs = @ \cup {r.blob}, !.blob = <<>>]
    ELSE IF Closes(e, "blobprefix")
         THEN [r EXCEPT !.inPrefix = FALSE, !.inside = "",
                        !.listing.folders = @ \cup {r.prefix}, !.prefix = <<>>]
    ELSE IF e.is = "end" THEN [r EXCEPT !.inside = ""]
    ELSE r

parse_listing(body) ==
    LET read[i \in 0 .. Len(body)] ==
            IF i = 0 THEN ListingToRead ELSE ListOn(read[i - 1], body[i])
        r == read[Len(body)]
    IN  IF r.isListing THEN r.listing ELSE NotAListing

-----------------------------------------------------------------------------
(* What the servers write.                                                 *)

Together(bodies) ==
    LET all[n \in 0 .. Len(bodies)] == IF n = 0 THEN <<>> ELSE all[n - 1] \o bodies[n]
    IN  all[Len(bodies)]
Written(ks, write(_)) == Together([i \in 1 .. Cardinality(ks) |-> write(SetToSeq(ks)[i])])

(* The name of a key, whose text may come in pieces; a marker of pages has *)
(* no references.                                                          *)
AsText(k) ==
    IF k \in DOMAIN AfterReference
    THEN Text(k) \o Reference \o Text(AfterReference[k]) ELSE Text(k)

(* Either way of writing a collection is met, and properties that were not *)
(* asked for come with a name of their own.                                *)
Response(k) ==
    LET kind == IF k.folder THEN Element("resourcetype", Empty("collection"))
                ELSE Empty("resourcetype")
    IN  Element("response", Element("href", AsText(k)) \o kind \o Element("displayname", AsText(k)))

ResponseInFull(k) ==
    LET kind == Element("resourcetype", IF k.folder THEN Element("collection", <<>>) ELSE <<>>)
    IN  Element("response", kind \o Element("href", AsText(k)))

MultistatusOf(ks, inFull) ==
    Element("multistatus",
            IF inFull THEN Written(ks, ResponseInFull) ELSE Written(ks, Response))

BlobElement(k) ==
    Element("blob", Element("name", AsText(k)) \o Element("properties", Element("etag", Text(k))))
PrefixElement(k) == Element("blobprefix", Element("name", AsText(k)))

EnumerationOf(listing) ==
    Element("enumerationresults",
        Element("blobs", Written(listing.folders, PrefixElement)
                         \o Written(listing.blobs, BlobElement))
        \o (IF listing.next = <<>> THEN Empty("nextmarker")
            ELSE Element("nextmarker", Text(listing.next))))
=============================================================================
