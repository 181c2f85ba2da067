----------------------------- MODULE ImageCache -----------------------------
(***************************************************************************)
(* The image proxy: GET /image-proxy (api/routes/images.py) and            *)
(* ImageCache.ensure_cached (storage/s3.py), which redirects to a copy in  *)
(* the bucket, made at the first request, or else to the origin.           *)
(*                                                                         *)
(* A process remembers in _known which copies it has seen and asks S3 no   *)
(* more about them; the bucket drops its objects after 30 days.            *)
(***************************************************************************)
EXTENDS FiniteSets

CONSTANTS
  Images,   \* keys of the bucket: a source and the digest of a URL
  Viewers,  \* requests, each made again and again
  Origin    \* where a request without an image in hand looks at

ASSUME ImagesAssumption == Origin \notin Images

VARIABLE images  \* the bucket, a process and its requests

View == [pc: {"idle", "head", "fetch", "put", "bucket", "origin"},
         image: Images \cup {Origin}]

Cache == [bucket: SUBSET Images,  \* the objects stored
          up: BOOLEAN,            \* whether S3 answers
          known: SUBSET Images,   \* _known
          gone: SUBSET Images,    \* observes: what expired since it was stored
          view: [Viewers -> View]]

NoView == [pc |-> "idle", image |-> Origin]

ImagesTypeOK == images \in Cache

ImagesInit ==
  images = [bucket |-> {}, up |-> TRUE, known |-> {}, gone |-> {},
            view |-> [v \in Viewers |-> NoView]]

At(v, pc) == images.view[v].pc = pc

\* ensure_cached is called: redirected at once if the key is known.  With no
\* image cache, or for a host that is not allowed, the redirect is to the
\* origin.
Views(v) ==
  /\ At(v, "idle")
  /\ \E i \in Images, pc \in {"proxy", "origin"} :
        LET to == IF pc = "origin" THEN pc
                  ELSE IF i \in images.known THEN "bucket" ELSE "head"
        IN images' = [images EXCEPT !.view[v] = [pc |-> to, image |-> i]]

\* HEAD: only an answer that the object is there counts.
HeadEnds(v) ==
  /\ At(v, "head")
  /\ LET i == images.view[v].image IN
     \/ /\ images.up /\ i \in images.bucket
        /\ images' = [images EXCEPT !.known = @ \cup {i}, !.view[v].pc = "bucket"]
     \/ /\ images' = [images EXCEPT !.view[v].pc = "fetch"]

KnownByFetch(i) == images.known \cup {i}

\* What the process knows when the image is fetched but not yet stored.
KnownOnFetch(i) == images.known

\* The origin answers, or not.  Whatever it sends with the status 200 counts
\* as the image, if it is not empty.
FetchEnds(v) ==
  /\ At(v, "fetch")
  /\ \/ images' = [images EXCEPT !.view[v].pc = "put",
                                 !.known = KnownOnFetch(images.view[v].image)]
     \/ images' = [images EXCEPT !.view[v].pc = "origin"]

\* PUT succeeds; or it fails, though the object may have been stored.
PutEnds(v) ==
  /\ At(v, "put")
  /\ LET i == images.view[v].image IN
     \/ /\ images.up
        /\ images' = [images EXCEPT !.bucket = @ \cup {i}, !.gone = @ \ {i},
                                    !.known = @ \cup {i}, !.view[v].pc = "bucket"]
     \/ /\ images.up
        /\ images' = [images EXCEPT !.bucket = @ \cup {i}, !.gone = @ \ {i},
                                    !.view[v].pc = "origin"]
     \/ /\ images' = [images EXCEPT !.view[v].pc = "origin"]

\* The browser has its redirect, or the request was given up.
Viewed(v) ==
  /\ ~At(v, "idle")
  /\ images' = [images EXCEPT !.view[v] = NoView]

\* The rule on the bucket: an object is dropped after 30 days.
ObjectExpires(i) ==
  /\ i \in images.bucket
  /\ images' = [images EXCEPT !.bucket = @ \ {i}, !.gone = @ \cup {i}]

S3Changes == images' = [images EXCEPT !.up = ~@]

\* The process is started anew and knows nothing.
ImagesCrash ==
  images' = [images EXCEPT !.known = {}, !.view = [v \in Viewers |-> NoView]]

ImagesNext ==
  \/ \E v \in Viewers :
        Views(v) \/ HeadEnds(v) \/ FetchEnds(v) \/ PutEnds(v) \/ Viewed(v)
  \/ \E i \in Images : ObjectExpires(i)
  \/ S3Changes
  \/ ImagesCrash

ImagesSpec == ImagesInit /\ [][ImagesNext]_images

-----------------------------------------------------------------------------

Redirected(v) == ~At(v, "bucket") /\ images'.view[v].pc = "bucket"

\* A redirect to the bucket is never on hope: what S3 was just asked for, or
\* given, is there and S3 is up; what the process remembers was there once,
\* however the requests, expiry, failed puts and restarts interleave.
RedirectLands ==
  [][\A v \in Viewers : Redirected(v) =>
       LET i == images'.view[v].image IN
       /\ i \in images'.bucket \/ (i \in images.known /\ i \in images.gone)
       /\ images'.up \/ i \in images.known]_images

\* "If MinIO is down, ... the handler 302s to the original URL so the user
\* always sees some image" (api/routes/images.py): a redirect to the bucket
\* is to an object that is there, in a bucket that can be reached.
SomeImage ==
  [][\A v \in Viewers : Redirected(v) =>
       images'.view[v].image \in images'.bucket /\ images'.up]_images

=============================================================================
