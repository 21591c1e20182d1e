-------------------------- MODULE MCPackageBuffer --------------------------
(***************************************************************************)
(* A small PackageBuffer for TLC: packages of the id, a byte, R and the    *)
(* check sum, in a buffer with room for one and two bytes more.            *)
(***************************************************************************)
EXTENDS PackageBuffer

SmallSizes == <<1, 1, 1>>

\* One byte at a time, and whole packages with both kinds of R.
SmallChunks == {<<b>> : b \in Byte}
               \cup {ToBinary(<<<<Id>>, <<b>>, <<r>>>>) : b, r \in 0..1}
=============================================================================
