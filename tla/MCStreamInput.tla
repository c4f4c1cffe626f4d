--------------------------- MODULE MCStreamInput ---------------------------
(* Small instances of StreamInput for TLC.                                 *)
EXTENDS StreamInput

\* The elements, from their kinds and sizes; an id of one byte before a size
\* of one byte, except that a Cluster's id and size have two; all of a Segment
\* that counts is its head.
Sized(kinds, sizes) ==
  LET at[i \in 1 .. Len(sizes)] ==
        IF i = 1 THEN 0 ELSE at[i - 1] + sizes[i - 1]
  IN  [i \in 1 .. Len(sizes) |->
         [kind |-> kinds[i], at |-> at[i], size |-> sizes[i],
          id   |-> IF kinds[i] = "cluster" THEN 2 ELSE 1,
          head |-> CASE kinds[i] = "cluster" -> 4
                     [] kinds[i] = "segment" -> sizes[i]
                     [] OTHER -> 2]]

Header == <<"ebml", "segment", "info", "tracks">>

Clusters == Header \o <<"cluster", "other", "other", "cluster", "other">>

\* A movie with an element as long as the buffer; one with Tracks first and an
\* element that does not fit; one with an element inside the header and a header
\* one byte shorter than the buffer; one with a header as long as the buffer;
\* headers longer than the buffer behind a Segment of the output's length and
\* behind a shorter one, whose replacement leaves too little room for Info; an
\* EBML element that leaves too little room for the Segment, and one that does
\* not fit itself.
MCMovies ==
  {Sized(Clusters, <<2, 2, 3, 2, 4, 3, 12, 4, 2>>),
   Sized(<<"ebml", "segment", "tracks", "info", "cluster", "other", "other">>,
         <<3, 2, 3, 2, 4, 2, 13>>),
   Sized(<<"ebml", "segment", "info", "other", "tracks", "cluster", "other">>,
         <<2, 2, 2, 3, 2, 4, 5>>),
   Sized(Clusters, <<3, 2, 4, 3, 4, 3, 3, 4, 2>>),
   Sized(Header, <<3, 4, 3, 3>>),
   Sized(Header, <<3, 2, 6, 2>>),
   Sized(Header, <<9, 2, 2, 2>>),
   Sized(Header, <<14, 4, 3, 2>>)}
=============================================================================
