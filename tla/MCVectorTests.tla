---------------------------- MODULE MCVectorTests ----------------------------
(* The files of ocuduVectorTests, one per executable. *)
EXTENDS VectorTests, VectorPusch, VectorPdsch, VectorControl, VectorSignals

MCFiles ==
    [pusch_processor |-> PuschProcessor,
     pusch_decoder_generic |-> PuschDecoderMain(GenericDecoder),
     pusch_decoder_acc100 |-> PuschDecoderMain(Acc100Decoder),
     pusch_demodulator |-> PuschDemodulator, ulsch_demultiplex |-> UlschDemultiplex,
     dmrs_pusch_estimator |-> DmrsPuschEstimator, port_channel_estimator |-> PortChannelEstimator,
     channel_equalizer |-> ChannelEqualizer, channel_equalizer_one |-> ChannelEqualizerUnasserted,
     demodulation_mapper |-> DemodulationMapper, ulsch_info |-> UlschInfo,
     pusch_tpmi_select |-> PuschTpmiSelect,
     pdsch_processor |-> PdschProcessor,
     pdsch_encoder_generic |-> PdschEncoderMain(GenericEncoder),
     pdsch_encoder_acc100 |-> PdschEncoderMain(Acc100Encoder),
     pdsch_modulator |-> PdschModulator, ldpc_enc_dec |-> LdpcEncDec, ldpc_rm |-> LdpcRateMatcher,
     ldpc_segmenter |-> LdpcSegmenter, ptrs_pdsch |-> PtrsPdschGenerator,
     dmrs_pdsch |-> DmrsPdschProcessor, nzp_csi_rs |-> NzpCsiRsGenerator, prs |-> PrsGenerator,
     modulation_mapper |-> ModulationMapper, tbs_calculator |-> TbsCalculator,
     pdcch_encoder |-> PdcchEncoder, pdcch_modulator |-> PdcchModulator,
     dmrs_pdcch |-> DmrsPdcchProcessor, pdcch_processor |-> PdcchProcessor,
     pdcch_candidates |-> PdcchCandidates, dmrs_pbch |-> DmrsPbchProcessor,
     pbch_encoder |-> PbchEncoder, pbch_modulator |-> PbchModulator, ssb_processor |-> SSBProcessor,
     pucch_format0 |-> PucchFormat0, pucch_format1 |-> PucchFormat1,
     pucch_format2 |-> PucchUCIFormat, pucch_format3 |-> PucchFormat3,
     pucch_demodulator |-> PucchDemodulator, uci_decoder |-> UciDecoder,
     short_block_encoder |-> ShortBlockEncoder, short_block_detector |-> ShortBlockDetector,
     prach_detector |-> PrachDetector, prach_generator |-> PrachGenerator,
     dmrs_pucch_estimator |-> DmrsPucchEstimator, srs_estimator |-> SrsEstimator,
     srs_logger |-> SrsEstimatorLogger, doa_estimator |-> DoaEstimator,
     low_papr |-> LowPaprSequenceGenerator, transform_precoder |-> TransformPrecoder,
     dft_processor |-> DFTProcessor, ofdm_modulator |-> OFDMModulator,
     ofdm_demodulator |-> OFDMDemodulator, ofdm_prach_demodulator |-> OFDMPrachDemodulator,
     ofh_compression |-> OFHCompression, ofh_compression_bfp9 |-> OFHCompressionBfp9]
=============================================================================
