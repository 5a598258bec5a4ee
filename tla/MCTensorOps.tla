---------------------------- MODULE MCTensorOps ----------------------------
(***************************************************************************)
(* Launch constants scaled down so that small tensors take several blocks, *)
(* several columns per lane, partial tiles and partial groups of tiles.    *)
(***************************************************************************)
EXTENDS TensorOps

MCFirstShapes == {<<6, 2>>}
MCShapes == {<<2, 6>>, <<3, 2, 2>>}
=============================================================================
