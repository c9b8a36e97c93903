---------------------------- MODULE MCTerraServe ----------------------------
EXTENDS TerraServe

Cogs == INSTANCE MCRaster
Vectors == INSTANCE MCFeatures
Maps == INSTANCE MCMvtTiles
Tables == INSTANCE MCPostgis

MCHash(b) == FoldLeft(LAMBDA h, byte : 16 * h + byte, 0, b)
MCIds    == 0 .. 3
MCTiles  == {<<>>, <<7>>, <<8>>}
MCBlobs  == {compress(2, t) : t \in MCTiles}
MCLayers == Cogs!MCLayers
MCFiles  == Vectors!MCFiles
MCWindows == Vectors!MCWindows
MCCoverages == Maps!MCCoverages
MCAddresses == Maps!MCAddresses
MCCuts == Maps!MCCuts
MCClasses == Maps!MCClasses
MCSites == Tables!MCSites
MCUnit == Tables!MCUnit
=============================================================================
