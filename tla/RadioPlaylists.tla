---- MODULE RadioPlaylists ----
(***************************************************************************)
(* From the address of a radio to the address of its stream (rdpl2stream): *)
(* the type of what an address answers with (StreamDecoder), the formats   *)
(* of playlists (PlsPlaylistDecoder and so on), the first entry of a playlist,     *)
(* until an entry is not a playlist (fetchStream).                         *)
(*                                                                         *)
(* An address is a sequence: its scheme, then its name.  The web gives a   *)
(* document for the http addresses.  A content type is its bare name in    *)
(* lower case.  A line of a document is a record: "key", what it begins    *)
(* with, and "url", the address it holds, or for another line the address  *)
(* which it becomes when it is joined to that of the document.             *)
(***************************************************************************)
EXTENDS Naturals, FiniteSets, Sequences, SequencesExt

CONSTANT Web   \* the document of an http address; the others do not answer

NoUrl == <<"">>
Types == [asx |-> {"audio/x-ms-wax", "video/x-ms-wvx", "video/x-ms-asf", "video/x-ms-wmv"},
          pls |-> {"audio/x-scpls", "application/pls+xml"},
          ram |-> {"audio/x-pn-realaudio", "audio/vnd.rn-realaudio"},
          hls |-> {"audio/mpegurl", "application/vnd.apple.mpegurl"},
          m3u |-> {"audio/mpegurl", "audio/x-mpegurl", "application/x-mpegurl", "application/vnd.apple.mpegurl"}]

Begins(doc, keys) == doc.body # <<>> /\ Head(doc.body).key \in keys
FirstBytes(doc) == SubSeq(doc.body, 1, doc.read)   \* the lines among the first 500 bytes

\* isStreamValid() of the six decoders, in the order in which they are asked: "yes", "no" or
\* "raises".  A document without a content type makes the first of them raise.
PlsValid(doc) ==
  IF doc.ctype = "none" THEN "raises"
  ELSE IF doc.ctype \in Types.pls \/ Begins(doc, {"[playlist]"}) THEN "yes" ELSE "no"
AsxValid(doc) == IF doc.ctype \in Types.asx /\ Begins(doc, {"<asx"}) THEN "yes" ELSE "no"
AsfValid(doc) == IF doc.ctype = "video/x-ms-asf" THEN "raises" ELSE "no"
XspfValid(doc) == IF doc.ctype = "application/xspf+xml" THEN "yes" ELSE "no"
RamValid(doc) == IF doc.ctype \in Types.ram THEN "yes" ELSE "no"
M3uValid(doc) ==
  IF doc.ctype \in Types.hls /\ (FirstBytes(doc) = <<>> \/ Begins(doc, {"#EXTM3U"})) THEN "no"
  ELSE IF doc.ctype \in Types.m3u \/ \E i \in DOMAIN FirstBytes(doc) :
            FirstBytes(doc)[i].key = "url" /\ FirstBytes(doc)[i].url[1] = "http" THEN "yes"
  ELSE "no"

Verdicts(doc) == << <<"pls", PlsValid(doc)>>, <<"asx", AsxValid(doc)>>, <<"asf", AsfValid(doc)>>,
                    <<"xspf", XspfValid(doc)>>, <<"ram", RamValid(doc)>>, <<"m3u", M3uValid(doc)>> >>

\* The decoder which takes the document: the first whose answer is not "no".
DecoderOf(doc) == Head(SelectSeq(Verdicts(doc), LAMBDA v : v[2] # "no") \o << <<"none", "no">> >>)

UrlInfo(kind, url, decoder) == [kind |-> kind, url |-> url, decoder |-> decoder]
Failed == UrlInfo("failed", NoUrl, "none")

\* StreamDecoder.getMediaStreamInfo(): a stream, a playlist with its decoder, or nothing.  A
\* redirection to mms is a stream, the others are followed.  "down": the addresses which do
\* not answer now.  The list which is left by an xspf entry without text is no address.
getMediaStreamInfo(url, down) ==
  IF url = NoUrl THEN Failed
  ELSE IF Head(url) # "http" THEN UrlInfo("stream", url, "none")
  ELSE IF url \notin DOMAIN Web \ down THEN Failed
  ELSE LET doc == Web[url]
           decoder == DecoderOf(doc)
       IN  CASE doc.reply = "mms" -> UrlInfo("stream", doc.to, "none")
             [] doc.reply = "icy" -> UrlInfo("stream", url, "none")
             [] doc.reply = "error" \/ decoder[2] = "raises" -> Failed
             [] decoder[2] = "no" -> UrlInfo("stream", url, "none")
             [] OTHER -> UrlInfo("playlist", url, decoder[1])

UrlsOf(doc, keys) ==
  LET lines == SelectSeq(doc.body, LAMBDA l : l.key \in keys)
  IN  [i \in DOMAIN lines |-> lines[i].url]
Has(doc, key) == \E i \in DOMAIN doc.body : doc.body[i].key = key

\* extractPlaylist(): the addresses in a playlist, or <<NoUrl>> when the decoder raises: a "File"
\* line without "=", upper case attributes or tags of which only the case differs in asx, what
\* is not XML, and every ram.  For m3u every line but the empty ones and those with "#" is an address,
\* a line of text too.  The ".asf" addresses of asx (key "asf") become mms.
ExtractPlaylist(doc, decoder) ==
  CASE decoder = "pls" -> IF Has(doc, "File without =") THEN <<NoUrl>> ELSE UrlsOf(doc, {"File"})
    [] decoder = "asx" ->
         IF Has(doc, "HREF") \/ Has(doc, "not xml") THEN <<NoUrl>>
         ELSE LET elts == SelectSeq(doc.body, LAMBDA l : l.key \in {"ref", "asf"})
              IN  [i \in DOMAIN elts |-> IF elts[i].key = "asf" THEN <<"mms">> \o Tail(elts[i].url) ELSE elts[i].url]
    [] decoder = "xspf" -> IF Has(doc, "not xml") THEN <<NoUrl>> ELSE UrlsOf(doc, {"location"})
    [] decoder = "ram" -> <<NoUrl>>
    [] decoder = "m3u" -> UrlsOf(doc, {l.key : l \in Range(doc.body)} \ {"#EXTM3U"})

\* Mutant: an empty playlist stands for itself.
NextOfEmptyAgain(info, down) ==
  LET list == IF info.url \in down \/ ~Web[info.url].trusted THEN <<NoUrl>> ELSE ExtractPlaylist(Web[info.url], info.decoder)
  IN  IF list = <<>> THEN info.url ELSE Head(list)

\* StreamDecoder.getPlaylist() and the turn of fetchStream's loop: the first entry of the
\* playlist, which is fetched a second time, now with the certificates checked.  NoUrl: the
\* program ends, because a decoder raised or the playlist is empty.
NextUrl(info, down) ==
  LET list == IF info.url \in down \/ ~Web[info.url].trusted THEN <<NoUrl>> ELSE ExtractPlaylist(Web[info.url], info.decoder)
  IN  IF list = <<>> THEN NoUrl ELSE Head(list)
====
