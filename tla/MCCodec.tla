------------------------------- MODULE MCCodec -------------------------------
EXTENDS Codec

AllKinds == DOMAIN Fields
=============================================================================
